---- MODULE Spec2Model ----
(***************************************************************************)
(* protolinter: the rule engine that walks a compiled protobuf file        *)
(* (internal/checker) and the option decoder it uses (internal/parser).    *)
(*                                                                         *)
(* Texts are TLA+ strings; Len, \o and SubSeq are used on them the way Go  *)
(* uses len, + and slicing.  A url.Values is a function from keys to       *)
(* sequences of strings.  An error value is a string, "" standing for nil. *)
(***************************************************************************)
EXTENDS Integers, Sequences, FiniteSets, TLC

(***************************************************************************)
(* Bounds of the model.                                                    *)
(***************************************************************************)
\* time.Duration is a signed 64-bit count of nanoseconds.  The duration
\* arithmetic is modelled at a reduced width: DurBits bits per integer and
\* Second nanoseconds per second, with the nanos field (an int32 in the
\* source, about 2.1 seconds wide on each side) ranging over
\* -MaxNanosField-1 .. MaxNanosField.
DurBits == 8
Second == 10
MaxNanosField == 21

(***************************************************************************)
(* Strings.                                                                *)
(***************************************************************************)
\* strings.HasPrefix
HasPrefix(s, prefix) ==
    /\ Len(prefix) <= Len(s)
    /\ SubSeq(s, 1, Len(prefix)) = prefix

\* strings.HasSuffix
HasSuffix(s, suffix) ==
    /\ Len(suffix) <= Len(s)
    /\ SubSeq(s, Len(s) - Len(suffix) + 1, Len(s)) = suffix

\* strings.TrimPrefix
TrimPrefix(s, prefix) ==
    IF HasPrefix(s, prefix) THEN SubSeq(s, Len(prefix) + 1, Len(s)) ELSE s

\* strings.TrimSuffix
TrimSuffix(s, suffix) ==
    IF HasSuffix(s, suffix) THEN SubSeq(s, 1, Len(s) - Len(suffix)) ELSE s

\* strings.Contains
Contains(s, sub) ==
    \E i \in 1..(Len(s) - Len(sub) + 1) : SubSeq(s, i, i + Len(sub) - 1) = sub

\* s[i] of Go (0-based) as a one-character string
CharAt(s, i) == SubSeq(s, i + 1, i + 1)

UpperLetters == "ABCDEFGHIJKLMNOPQRSTUVWXYZ"
LowerLetters == "abcdefghijklmnopqrstuvwxyz"
Digits == "0123456789"

\* position (1-based) of the one-character string c in alphabet, 0 if absent
RECURSIVE IndexFrom(_, _, _)
IndexFrom(alphabet, c, i) ==
    IF i > Len(alphabet) THEN 0
    ELSE IF SubSeq(alphabet, i, i) = c THEN i
    ELSE IndexFrom(alphabet, c, i + 1)

IndexOf(alphabet, c) == IndexFrom(alphabet, c, 1)

IsUpperChar(c) == IndexOf(UpperLetters, c) > 0
IsLowerChar(c) == IndexOf(LowerLetters, c) > 0
IsDigitChar(c) == IndexOf(Digits, c) > 0

\* strings.TrimSpace on the texts of the model (blanks only)
RECURSIVE TrimSpace(_)
TrimSpace(s) ==
    IF HasPrefix(s, " ") THEN TrimSpace(SubSeq(s, 2, Len(s)))
    ELSE IF HasSuffix(s, " ") THEN TrimSpace(SubSeq(s, 1, Len(s) - 1))
    ELSE s

\* strings.Join(parts, sep)
RECURSIVE JoinStrings(_, _)
JoinStrings(parts, sep) ==
    IF Len(parts) = 0 THEN ""
    ELSE IF Len(parts) = 1 THEN parts[1]
    ELSE parts[1] \o sep \o JoinStrings(Tail(parts), sep)

(***************************************************************************)
(* url.Values                                                              *)
(***************************************************************************)
EmptyValues == [k \in {} |-> <<>>]

\* url.Values.Set
ValuesSet(u, key, value) ==
    [k \in DOMAIN u \cup {key} |-> IF k = key THEN <<value>> ELSE u[k]]

\* url.Values.Add
ValuesAdd(u, key, value) ==
    [k \in DOMAIN u \cup {key} |->
        IF k = key
        THEN (IF key \in DOMAIN u THEN Append(u[key], value) ELSE <<value>>)
        ELSE u[k]]

\* url.Values.Get
ValuesGet(u, key) ==
    IF key \in DOMAIN u /\ Len(u[key]) > 0 THEN u[key][1] ELSE ""

\* url.Values.Has
ValuesHas(u, key) == key \in DOMAIN u

(***************************************************************************)
(* Integers wider than the checker's: sign, and magnitude hi * 10^6 + lo.  *)
(***************************************************************************)
Big(neg, hi, lo) == [neg |-> neg, hi |-> hi, lo |-> lo]

BigZero == Big(FALSE, 0, 0)

BigIsZero(a) == a.hi = 0 /\ a.lo = 0

\* a < b
BigLess(a, b) ==
    LET magLess(x, y) == x.hi < y.hi \/ (x.hi = y.hi /\ x.lo < y.lo)
        aneg == a.neg /\ ~BigIsZero(a)
        bneg == b.neg /\ ~BigIsZero(b)
    IN  CASE aneg /\ ~bneg -> TRUE
          [] ~aneg /\ bneg -> FALSE
          [] ~aneg /\ ~bneg -> magLess(a, b)
          [] OTHER -> magLess(b, a)

\* the value of a small one
BigToInt(a) == IF a.neg THEN -(a.hi * 1000000 + a.lo) ELSE a.hi * 1000000 + a.lo

\* a small integer as a wide one
IntToBig(n) == IF n < 0 THEN Big(TRUE, 0, -n) ELSE Big(FALSE, 0, n)

\* decimal digits of n, left-padded with zeros to width w
ZeroPad(n, w) ==
    LET s == ToString(n)
        zeros == "000000000"
    IN  IF Len(s) >= w THEN s ELSE SubSeq(zeros, 1, w - Len(s)) \o s

\* fmt's %v of an int64
FormatBig(a) ==
    (IF a.neg /\ ~BigIsZero(a) THEN "-" ELSE "")
        \o (IF a.hi = 0 THEN ToString(a.lo)
            ELSE ToString(a.hi) \o ZeroPad(a.lo, 6))

(***************************************************************************)
(* Structured option values (protoreflect.Message).                        *)
(*                                                                         *)
(* A message value is [type |-> full name, fields |-> sequence of the     *)
(* populated fields in the order Range visits them].  A populated field   *)
(* is a record with name (TextName), hasJSONName, jsonName, card           *)
(* ("single", "list", "map"), kind, typeName (full name of the message or  *)
(* enum type of the field, "" otherwise) and val.  A list's val is the     *)
(* sequence of its elements, a map's val the sequence of its [k, v]        *)
(* entries.  A member of a oneof is populated only when it is the selected *)
(* member, so the test at parser.go:68-72 never skips a field Range        *)
(* yields.                                                                 *)
(***************************************************************************)
Msg(type, fields) == [type |-> type, fields |-> fields]

Fld(name, card, kind, typeName, val) ==
    [name |-> name, hasJSONName |-> FALSE, jsonName |-> "", card |-> card,
     kind |-> kind, typeName |-> typeName, val |-> val]

\* protoreflect.Message.Has
MsgHas(m, name) == \E i \in 1..Len(m.fields) : m.fields[i].name = name

\* protoreflect.Message.Get: the value of the field, its default when unset
MsgGet(m, name, default) ==
    IF MsgHas(m, name)
    THEN m.fields[CHOOSE i \in 1..Len(m.fields) : m.fields[i].name = name].val
    ELSE default

\* protoreflect.Value.String of a message: its text form, "" when no field
\* is populated
RECURSIVE MessageString(_)
MessageString(m) ==
    LET RECURSIVE fieldsFrom(_)
        fieldsFrom(i) ==
            IF i > Len(m.fields) THEN <<>>
            ELSE LET fd == m.fields[i]
                     text == IF fd.card = "single" /\ fd.kind = "string"
                             THEN fd.name \o ":\"" \o fd.val \o "\""
                             ELSE IF fd.card = "single" /\ fd.kind = "message"
                             THEN fd.name \o ":{" \o MessageString(fd.val) \o "}"
                             ELSE fd.name \o ":..."
                 IN  <<text>> \o fieldsFrom(i + 1)
    IN  JoinStrings(fieldsFrom(1), " ")

(***************************************************************************)
(* internal/parser: well-known types                                       *)
(***************************************************************************)
timestampMessageFullname == "google.protobuf.Timestamp"
durationMessageFullname == "google.protobuf.Duration"
bytesMessageFullname == "google.protobuf.BytesValue"
fieldMaskFullName == "google.protobuf.FieldMask"
responseFieldFullName == "grpc.gateway.protoc_gen_openapiv2.options.Response"
responseEntryFullName ==
    "grpc.gateway.protoc_gen_openapiv2.options.Operation.ResponsesEntry"

\* 253402300799
maxTimestampSeconds == Big(FALSE, 253402, 300799)
\* -6213559680013
minTimestampSeconds == Big(TRUE, 6213559, 680013)
secondsInNanos == 999999999

Ok(v) == [err |-> "", val |-> v]
Fail(e) == [err |-> e, val |-> ""]

\* the timestamp bound tests of marshalTimestamp
marshalTimestamp(m) ==
    LET secs == MsgGet(m, "seconds", BigZero)
        nanos == MsgGet(m, "nanos", 0)
    IN  IF BigLess(secs, minTimestampSeconds) \/ BigLess(maxTimestampSeconds, secs)
        THEN Fail(timestampMessageFullname \o ": seconds out of range "
                    \o FormatBig(secs))
        ELSE IF nanos < 0 \/ nanos > secondsInNanos
        THEN Fail(timestampMessageFullname \o ": nanos out of range "
                    \o ToString(nanos))
        ELSE \* time.Unix(secs, nanos).UTC().Format(...): the calendar part is
             \* rendered as the second count, the fraction as the source trims it
             LET full == "@" \o FormatBig(secs) \o "." \o ZeroPad(nanos, 9)
                 t1 == TrimSuffix(full, "000")
                 t2 == TrimSuffix(t1, "000")
                 t3 == TrimSuffix(t2, ".000")
             IN  Ok(t3 \o "Z")

\* the integers of DurBits bits
MaxInt64 == 2 ^ (DurBits - 1) - 1
MinInt64 == -(2 ^ (DurBits - 1))

\* two's complement wrap-around of an arithmetic result
Wrap64(x) == ((x - MinInt64) % (2 ^ DurBits)) + MinInt64

\* Go's integer division, truncated toward zero
QuoTrunc(a, b) ==
    IF a >= 0 THEN a \div b ELSE -((-a) \div b)

\* time.Duration.String, rendered as the nanosecond count
DurationString(d) == ToString(d) \o "ns"

marshalDuration(m) ==
    LET secs == BigToInt(MsgGet(m, "seconds", BigZero))
        nanos == MsgGet(m, "nanos", 0)
        d0 == Wrap64(secs * Second)
        overflow0 == QuoTrunc(d0, Second) # secs
        d == Wrap64(d0 + nanos)
        overflow1 == overflow0 \/ (secs < 0 /\ nanos < 0 /\ d > 0)
        overflow == overflow1 \/ (secs > 0 /\ nanos > 0 /\ d < 0)
    IN  IF overflow /\ secs < 0 THEN Ok(DurationString(MinInt64))
        ELSE IF overflow /\ secs > 0 THEN Ok(DurationString(MaxInt64))
        ELSE Ok(DurationString(d))

\* encoding/base64: the standard and the URL alphabet, both padded
base64StdAlphabet ==
    "ABCDEFGHIJKLMNOPQRSTUVWXYZabcdefghijklmnopqrstuvwxyz0123456789+/"
base64URLAlphabet ==
    "ABCDEFGHIJKLMNOPQRSTUVWXYZabcdefghijklmnopqrstuvwxyz0123456789-_"

\* base64.Encoding.EncodeToString of a sequence of bytes (0..255)
RECURSIVE Base64Encode(_, _)
Base64Encode(alphabet, bytes) ==
    LET sym(n) == SubSeq(alphabet, n + 1, n + 1)
        b1 == bytes[1]
        b2 == IF Len(bytes) >= 2 THEN bytes[2] ELSE 0
        b3 == IF Len(bytes) >= 3 THEN bytes[3] ELSE 0
        c1 == sym(b1 \div 4)
        c2 == sym((b1 % 4) * 16 + b2 \div 16)
        c3 == sym((b2 % 16) * 4 + b3 \div 64)
        c4 == sym(b3 % 64)
    IN  IF Len(bytes) = 0 THEN ""
        ELSE IF Len(bytes) = 1 THEN c1 \o c2 \o "=="
        ELSE IF Len(bytes) = 2 THEN c1 \o c2 \o c3 \o "="
        ELSE c1 \o c2 \o c3 \o c4
                \o Base64Encode(alphabet, SubSeq(bytes, 4, Len(bytes)))

marshalBytes(m) == Ok(Base64Encode(base64StdAlphabet, MsgGet(m, "value", <<>>)))

(***************************************************************************)
(* internal/parser: parser.go                                              *)
(***************************************************************************)
RECURSIVE convertFrom(_, _, _)
convertFrom(s, i, isUnderscoreFound) ==
    IF i >= Len(s) THEN ""
    ELSE LET c == CharAt(s, i)
             up == IF isUnderscoreFound /\ IsLowerChar(c)
                   THEN CharAt(UpperLetters, IndexOf(LowerLetters, c) - 1)
                   ELSE c
         IN  (IF c # "_" THEN up ELSE "") \o convertFrom(s, i + 1, c = "_")

convertSnakeCaseToCamelCase(s) == convertFrom(s, 0, FALSE)

wrapperTypes ==
    {"google.protobuf.DoubleValue", "google.protobuf.FloatValue",
     "google.protobuf.Int64Value", "google.protobuf.Int32Value",
     "google.protobuf.UInt64Value", "google.protobuf.UInt32Value",
     "google.protobuf.BoolValue", "google.protobuf.StringValue"}

\* fmt.Sprint of the "value" field of a wrapper, its default when unset
wrapperString(typeName, m) ==
    CASE typeName = "google.protobuf.StringValue" -> MsgGet(m, "value", "")
      [] typeName = "google.protobuf.BoolValue" ->
            (IF MsgGet(m, "value", FALSE) THEN "true" ELSE "false")
      [] OTHER -> ToString(MsgGet(m, "value", 0))

encodeMessage(typeName, value) ==
    CASE typeName = timestampMessageFullname -> marshalTimestamp(value)
      [] typeName = durationMessageFullname -> marshalDuration(value)
      [] typeName = bytesMessageFullname -> marshalBytes(value)
      [] typeName \in wrapperTypes -> Ok(wrapperString(typeName, value))
      [] typeName = fieldMaskFullName ->
            IF "dynamic" \in DOMAIN value THEN Ok("")
            ELSE LET paths == MsgGet(value, "paths", <<>>)
                 IN  Ok(JoinStrings(
                        [i \in 1..Len(paths) |->
                            convertSnakeCaseToCamelCase(paths[i])], ","))
      [] typeName \in {responseFieldFullName, responseEntryFullName} ->
            Ok(MessageString(value))
      [] OTHER -> Fail("unsupported message type: \"" \o typeName \o "\"")

\* kind is the kind of the descriptor, typeName its message or enum type
parseProtoMessageFieldValue(kind, typeName, value) ==
    CASE kind = "bool" -> Ok(IF value THEN "true" ELSE "false")
      [] kind = "enum" ->
            IF typeName = "google.protobuf.NullValue" THEN Ok("null")
            ELSE Ok(value)
      [] kind = "string" -> Ok(value)
      [] kind = "int64" -> Ok(FormatBig(value))
      [] kind = "bytes" -> Ok(Base64Encode(base64URLAlphabet, value))
      [] kind \in {"message", "group"} -> encodeMessage(typeName, value)
      [] OTHER -> Ok(ToString(value))

\* values = append(values, value) after the values of the later elements
\* were asked for: the first error met in the order of the list wins
prependValue(r, rest) ==
    IF r.err # "" THEN [err |-> r.err, val |-> <<>>]
    ELSE IF rest.err # "" THEN rest
    ELSE [err |-> "", val |-> <<r.val>> \o rest.val]

RECURSIVE encodeRepeatedFrom(_, _, _)
encodeRepeatedFrom(fd, list, i) ==
    IF i > Len(list) THEN [err |-> "", val |-> <<>>]
    ELSE prependValue(parseProtoMessageFieldValue(fd.kind, fd.typeName, list[i]),
                      encodeRepeatedFrom(fd, list, i + 1))

encodeRepeatedField(fd, list) ==
    IF Len(list) = 0 THEN [err |-> "", val |-> <<>>]
    ELSE encodeRepeatedFrom(fd, list, 1)

\* The key of an entry is parsed with the descriptor of the map's value
\* (parser.go:150).  A key is a string: the maps of the inputs have values
\* of kind string, or messages outside the types encodeMessage reads the
\* fields of.
encodeMapKey(fd, k) ==
    IF fd.kind \in {"message", "group"}
    THEN (IF fd.typeName \in {responseFieldFullName, responseEntryFullName}
          THEN Ok(k)
          ELSE Fail("unsupported message type: \"" \o fd.typeName \o "\""))
    ELSE Ok(k)

\* result[key] = value
mapPut(result, key, value) ==
    [k \in DOMAIN result \cup {key} |-> IF k = key THEN value ELSE result[k]]

\* the entries are those Range yields before the first failure
RECURSIVE encodeMapFrom(_, _, _, _)
encodeMapEntry(fd, mp, i, result, key, value) ==
    IF key.err # "" THEN result
    ELSE IF value.err # "" THEN result
    ELSE encodeMapFrom(fd, mp, i + 1, mapPut(result, key.val, value.val))

encodeMapFrom(fd, mp, i, result) ==
    IF i > Len(mp) THEN result
    ELSE encodeMapEntry(fd, mp, i, result, encodeMapKey(fd, mp[i].k),
            parseProtoMessageFieldValue(fd.kind, fd.typeName, mp[i].v))

encodeMapField(fd, mp) == encodeMapFrom(fd, mp, 1, [k \in {} |-> ""])

\* a variant of ValuesAddAll that sets the key anew for each item
RECURSIVE ValuesSetEach(_, _, _)
ValuesSetEach(u, key, list) ==
    IF Len(list) = 0 THEN u
    ELSE ValuesSetEach(ValuesSet(u, key, list[1]), key, Tail(list))

RECURSIVE ValuesAddAll(_, _, _)
ValuesAddAll(u, key, list) ==
    IF Len(list) = 0 THEN u
    ELSE ValuesAddAll(ValuesAdd(u, key, list[1]), key, Tail(list))

RECURSIVE ValuesSetAll(_, _, _, _)
ValuesSetAll(u, newPath, m, keys) ==
    IF keys = {} THEN u
    ELSE LET k == CHOOSE x \in keys : TRUE
         IN  ValuesSetAll(ValuesSet(u, newPath \o "[" \o k \o "]", m[k]),
                          newPath, m, keys \ {k})

\* key := fd.JSONName() or fd.Name(); newPath := path + "." + key
fieldPath(path, fd) ==
    IF path # ""
    THEN JoinStrings(<<path, IF fd.hasJSONName THEN fd.jsonName ELSE fd.name>>, ".")
    ELSE IF fd.hasJSONName THEN fd.jsonName ELSE fd.name

\* encodeByField from the i-th populated field on: [u, err]
RECURSIVE encodeByFieldFrom(_, _, _, _)
\* case fd.IsList() (parser.go:66-79)
\* a variant of encodeListCase that drops a list that fails to encode
encodeListCaseLenient(u, path, m, i, newPath, list) ==
    IF list.err # "" THEN encodeByFieldFrom(u, path, m, i + 1)
    ELSE encodeByFieldFrom(ValuesAddAll(u, newPath, list.val), path, m, i + 1)

encodeListCase(u, path, m, i, newPath, list) ==
    IF list.err # "" THEN [u |-> u, err |-> list.err]
    ELSE encodeByFieldFrom(ValuesAddAll(u, newPath, list.val), path, m, i + 1)

\* case fd.IsMap() (parser.go:80-93)
encodeMapCase(u, path, m, i, newPath, mm) ==
    encodeByFieldFrom(ValuesSetAll(u, newPath, mm, DOMAIN mm), path, m, i + 1)

\* a variant of encodeMessageCase that returns the error of encodeMessage
encodeMessageStrict(u, path, m, i, newPath, r, sub) ==
    IF r.err = ""
    THEN encodeByFieldFrom(ValuesSet(u, newPath, r.val), path, m, i + 1)
    ELSE [u |-> u, err |-> r.err]

\* case MessageKind, GroupKind (parser.go:94-108): the error of encodeMessage
\* is dropped and the fields of the value are encoded in its place
encodeMessageCase(u, path, m, i, newPath, r, sub) ==
    IF r.err = ""
    THEN encodeByFieldFrom(ValuesSet(u, newPath, r.val), path, m, i + 1)
    ELSE IF sub.err # "" THEN [u |-> sub.u, err |-> sub.err]
    ELSE encodeByFieldFrom(sub.u, path, m, i + 1)

\* default (parser.go:109-116)
encodeScalarCase(u, path, m, i, newPath, r) ==
    IF r.err # "" THEN [u |-> u, err |-> r.err]
    ELSE encodeByFieldFrom(ValuesSet(u, newPath, r.val), path, m, i + 1)

encodeField(u, path, m, i, fd, newPath) ==
    CASE fd.card = "list" ->
            IF Len(fd.val) = 0 THEN encodeByFieldFrom(u, path, m, i + 1)
            ELSE encodeListCase(u, path, m, i, newPath,
                    encodeRepeatedField(fd, fd.val))
      [] fd.card = "map" ->
            IF Len(fd.val) = 0 THEN encodeByFieldFrom(u, path, m, i + 1)
            ELSE encodeMapCase(u, path, m, i, newPath, encodeMapField(fd, fd.val))
      [] fd.card = "single" /\ fd.kind \in {"message", "group"} ->
            encodeMessageCase(u, path, m, i, newPath,
                encodeMessage(fd.typeName, fd.val),
                encodeByFieldFrom(u, newPath, fd.val, 1))
      [] OTHER ->
            encodeScalarCase(u, path, m, i, newPath,
                parseProtoMessageFieldValue(fd.kind, fd.typeName, fd.val))

encodeByFieldFrom(u, path, m, i) ==
    IF i > Len(m.fields) THEN [u |-> u, err |-> ""]
    ELSE encodeField(u, path, m, i, m.fields[i], fieldPath(path, m.fields[i]))

encodeByField(u, path, m) == encodeByFieldFrom(u, path, m, 1)

\* [err, u]: u is nil (the empty map here) when err is not
valuesOrNil(r) ==
    IF r.err # "" THEN [err |-> r.err, u |-> EmptyValues]
    ELSE [err |-> "", u |-> r.u]

ParseProtoMessageValues(msg) == valuesOrNil(encodeByField(EmptyValues, "", msg))

(***************************************************************************)
(* internal/checker: rule identifiers and patterns (checker.go:20-54)      *)
(***************************************************************************)
MethodHasVersion == "method_has_version"
MethodHasCorrectInputName == "method_has_correct_input_name"
MethodHasHTTPPath == "method_has_http_path"
MethodHasBodyTag == "method_has_body_tag"
MethodHasSwaggerTags == "method_has_swagger_tags"
MethodHasSwaggerSummary == "method_has_swagger_summary"
MethodHasSwaggerDescription == "method_has_swagger_description"
MethodHasDefaultErrorResponse == "method_has_default_error_response"
FieldNameIsSnakeCase == "field_name_is_snake_case"
FieldHasCorrectJSONName == "field_has_correct_json_name"
FieldHasNoDescription == "field_has_no_description"
FieldDescriptionStartsWithCapital == "field_description_starts_with_capital"
FieldDescriptionEndsWithDotOrQuestionMark ==
    "field_description_ends_with_dot_or_question_mark"
EnumValueHasComments == "enum_value_has_comments"

AllChecks ==
    {MethodHasVersion, MethodHasCorrectInputName, MethodHasHTTPPath,
     MethodHasBodyTag, MethodHasSwaggerTags, MethodHasSwaggerSummary,
     MethodHasSwaggerDescription, MethodHasDefaultErrorResponse,
     FieldNameIsSnakeCase, FieldHasCorrectJSONName, FieldHasNoDescription,
     FieldDescriptionStartsWithCapital,
     FieldDescriptionEndsWithDotOrQuestionMark, EnumValueHasComments}

snakeCaseNamePattern == "^[a-z][a-z0-9_]*$"
validMethodNamePattern == "^[A-Z][A-Za-z0-9]*V\\d+$"

\* snakeCaseNameRegexp.FindStringIndex(s) has a match
snakeCaseNameRegexp(s) ==
    /\ Len(s) >= 1
    /\ IsLowerChar(CharAt(s, 0))
    /\ \A i \in 1..(Len(s) - 1) :
          LET c == CharAt(s, i) IN IsLowerChar(c) \/ IsDigitChar(c) \/ c = "_"

\* validMethodNameRegexp.FindStringIndex(s) has a match: an upper-case
\* letter, letters and digits, a V at (0-based) position v, digits to the end
validMethodNameRegexp(s) ==
    /\ Len(s) >= 3
    /\ IsUpperChar(CharAt(s, 0))
    /\ \E v \in 1..(Len(s) - 2) :
          /\ CharAt(s, v) = "V"
          /\ \A i \in 1..(v - 1) :
                LET c == CharAt(s, i)
                IN  IsUpperChar(c) \/ IsLowerChar(c) \/ IsDigitChar(c)
          /\ \A i \in (v + 1)..(Len(s) - 1) : IsDigitChar(CharAt(s, i))

\* util.go:99-105
startsWithCapitalLetter(s) ==
    IF Len(s) = 0 THEN FALSE ELSE IsUpperChar(CharAt(s, 0))

(***************************************************************************)
(* Inputs: the options a compiled method or field can carry.               *)
(***************************************************************************)
httpOptionName == "google.api.http"
operationOptionName ==
    "grpc.gateway.protoc_gen_openapiv2.options.openapiv2_operation"
fieldOptionName ==
    "grpc.gateway.protoc_gen_openapiv2.options.openapiv2_field"

Str(name, val) == Fld(name, "single", "string", "", val)

HttpRule(fields) == Msg("google.api.HttpRule", fields)

HttpPostBody == HttpRule(<<Str("post", "/v1/users"), Str("body", "*")>>)
HttpPostNoBody == HttpRule(<<Str("post", "/v1/users")>>)
HttpPostUser == HttpRule(<<Str("post", "/v1/users"), Str("body", "user")>>)
HttpPostEmpty == HttpRule(<<Str("post", "")>>)
HttpGet == HttpRule(<<Str("get", "/v1/users")>>)
\* a custom verb: the pattern is a nested record outside the well-known list
HttpCustom ==
    HttpRule(<<Fld("custom", "single", "message", "google.api.CustomHttpPattern",
                   Msg("google.api.CustomHttpPattern",
                       <<Str("kind", "HEAD"), Str("path", "/v1/users")>>))>>)
\* additional_bindings is a repeated HttpRule
HttpBindings ==
    HttpRule(<<Str("get", "/v1/users"),
               Fld("additional_bindings", "list", "message",
                   "google.api.HttpRule", <<HttpGet>>)>>)

Operation(fields) ==
    Msg("grpc.gateway.protoc_gen_openapiv2.options.Operation", fields)

OpTags == Fld("tags", "list", "string", "", <<"users">>)
OpSummary == Str("summary", "Get a user")
OpDescription == Str("description", "Returns a user.")
OpResponses ==
    Fld("responses", "map", "message", responseFieldFullName,
        <<[k |-> "default",
           v |-> Msg(responseFieldFullName, <<Str("description", "Error.")>>)]>>)
\* security is a repeated SecurityRequirement
OpSecurity ==
    Fld("security", "list", "message",
        "grpc.gateway.protoc_gen_openapiv2.options.SecurityRequirement",
        <<Msg("grpc.gateway.protoc_gen_openapiv2.options.SecurityRequirement",
              <<>>)>>)

\* a post binding without body that has additional bindings
HttpPostBindings ==
    HttpRule(<<Str("post", "/v1/users"),
               Fld("additional_bindings", "list", "message",
                   "google.api.HttpRule", <<HttpGet>>)>>)
HttpPutNoBody == HttpRule(<<Str("put", "/v1/users/1")>>)
HttpPutBody == HttpRule(<<Str("put", "/v1/users/1"), Str("body", "*")>>)
HttpDelete == HttpRule(<<Str("delete", "/v1/users/1")>>)
HttpPatchUser == HttpRule(<<Str("patch", "/v1/users/1"), Str("body", "user")>>)

OperationFull == Operation(<<OpTags, OpSummary, OpDescription, OpResponses>>)
OperationNoResponses == Operation(<<OpTags, OpSummary, OpDescription>>)
OperationNoSummary == Operation(<<OpTags, OpDescription, OpResponses>>)
OperationEmpty == Operation(<<>>)
OperationSecurity == Operation(<<OpSummary, OpSecurity>>)

JSONSchema(fields) ==
    Msg("grpc.gateway.protoc_gen_openapiv2.options.JSONSchema", fields)

Opt(fullName, value) == [fullName |-> fullName, value |-> value]

\* the value of a bool option such as deprecated = true; it is no message
BoolOption == Msg("bool", <<>>)

\* source location of a descriptor: SourceLocations().ByDescriptor; path is
\* nil when the compiler kept none
NoLocation == [hasPath |-> FALSE, line |-> 0, column |-> 0, leading |-> ""]
Location(line, column, leading) ==
    [hasPath |-> TRUE, line |-> line, column |-> column, leading |-> leading]

MethodProfile(name, inputName, inputFullName, options) ==
    [name |-> name, inputName |-> inputName, inputFullName |-> inputFullName,
     options |-> options]

\* (name, input name, input full name)
MethodNames ==
    {<<"GetUserV1", "GetUserV1Request", "p.GetUserV1Request">>,
     <<"GetUser", "GetUserRequest", "p.GetUserRequest">>,
     <<"GetUserV1", "GetUserRequest", "p.GetUserRequest">>,
     <<"GetUserV1", "Empty", "google.protobuf.Empty">>,
     <<"GetUserV1", "GetUserReq", "p.GetUserReq">>,
     <<"GetUser", "GetUserReq", "p.GetUserReq">>,
     <<"GetUser", "Empty", "google.protobuf.Empty">>}

MethodOptionLists ==
    {<<>>,
     <<Opt("google.protobuf.MethodOptions.deprecated", BoolOption)>>,
     <<Opt(httpOptionName, HttpPostBody), Opt(operationOptionName, OperationFull)>>,
     <<Opt(httpOptionName, HttpGet)>>,
     <<Opt(httpOptionName, HttpCustom)>>,
     <<Opt(httpOptionName, HttpPostNoBody)>>,
     <<Opt(httpOptionName, HttpPostUser)>>,
     <<Opt(httpOptionName, HttpPostEmpty)>>,
     <<Opt(httpOptionName, HttpPostBindings)>>,
     <<Opt(httpOptionName, HttpPutNoBody)>>,
     <<Opt(httpOptionName, HttpPutBody)>>,
     <<Opt(httpOptionName, HttpDelete)>>,
     <<Opt(httpOptionName, HttpPatchUser)>>,
     <<Opt(httpOptionName, HttpBindings),
       Opt(operationOptionName, OperationNoSummary)>>,
     <<Opt(operationOptionName, OperationNoResponses)>>,
     <<Opt(operationOptionName, OperationEmpty), Opt(httpOptionName, HttpGet)>>,
     <<Opt(operationOptionName, OperationSecurity),
       Opt(httpOptionName, HttpPostNoBody)>>}

\* every naming without options, every option list under the first naming,
\* and a method that breaks a naming rule and option rules at once
MethodProfiles ==
    {MethodProfile(n[1], n[2], n[3], <<>>) : n \in MethodNames}
        \cup {MethodProfile("GetUserV1", "GetUserV1Request",
                            "p.GetUserV1Request", o) : o \in MethodOptionLists}
        \cup {MethodProfile("GetUser", "GetUserRequest", "p.GetUserRequest",
                    <<Opt(operationOptionName, OperationEmpty),
                      Opt(httpOptionName, HttpPostEmpty)>>),
              MethodProfile("GetUserV1", "GetUserReq", "p.GetUserReq",
                    <<Opt(httpOptionName, HttpBindings),
                      Opt(operationOptionName, OperationNoResponses)>>)}

FieldProfile(name, hasJSONName, jsonName, options) ==
    [name |-> name, hasJSONName |-> hasJSONName, jsonName |-> jsonName,
     options |-> options]

Described(text) == <<Opt(fieldOptionName, JSONSchema(<<Str("description", text)>>))>>

\* (name, has an explicit json_name, json_name)
FieldNames ==
    {<<"user_id", FALSE, "">>, <<"user_id", TRUE, "user_id">>,
     <<"userId", FALSE, "">>, <<"user_id", TRUE, "userId">>}

FieldOptionLists ==
    {<<>>,
     <<Opt("google.protobuf.FieldOptions.deprecated", BoolOption)>>,
     Described("Identifier."),
     Described("Who?"),
     <<Opt(fieldOptionName, JSONSchema(<<>>))>>,
     Described("identifier."),
     Described("Identifier"),
     Described("identifier"),
     \* an option schema with a repeated nested record
     <<Opt(fieldOptionName,
           JSONSchema(<<Fld("any_of", "list", "message",
                  "grpc.gateway.protoc_gen_openapiv2.options.JSONSchema",
                  <<JSONSchema(<<>>)>>)>>))>>}

\* every naming without options, every option list under the first naming,
\* and a field that breaks a naming rule and description rules at once
FieldProfiles ==
    {FieldProfile(n[1], n[2], n[3], <<>>) : n \in FieldNames}
        \cup {FieldProfile("user_id", FALSE, "", o) : o \in FieldOptionLists}
        \cup {FieldProfile("UserID", TRUE, "userId", Described("identifier"))}

ValueProfiles == {Location(3, 2, " Unknown. "), NoLocation}

(***************************************************************************)
(* Inputs: compiled files (linker.File).  A descriptor is a record with    *)
(* its kind, local name, full name, source location and children.          *)
(***************************************************************************)
Method(parent, prof, sl) ==
    [kind |-> "method", name |-> prof.name,
     fullName |-> parent \o "." \o prof.name,
     inputName |-> prof.inputName, inputFullName |-> prof.inputFullName,
     options |-> prof.options, sl |-> sl]

Field(parent, prof, sl) ==
    [kind |-> "field", name |-> prof.name,
     fullName |-> parent \o "." \o prof.name,
     hasJSONName |-> prof.hasJSONName, jsonName |-> prof.jsonName,
     options |-> prof.options, sl |-> sl]

\* the full name of an enum value is scoped by the parent of its enum
EnumValue(scope, name, sl) ==
    [kind |-> "enumvalue", name |-> name, fullName |-> scope \o "." \o name,
     sl |-> sl]

Enum(fullName, values) ==
    [kind |-> "enum", fullName |-> fullName, values |-> values]

Message(fullName, fields, messages, enums) ==
    [kind |-> "message", fullName |-> fullName, fields |-> fields,
     messages |-> messages, enums |-> enums]

Service(name, fullName, methods) ==
    [kind |-> "service", name |-> name, fullName |-> fullName,
     methods |-> methods]

\* the full name of a file is its package
File(path, package, services, messages, enums) ==
    [kind |-> "file", path |-> path, package |-> package, fullName |-> package,
     services |-> services, messages |-> messages, enums |-> enums]

FileNames == {"a.proto", "m.proto", "b.proto"}

\* a.proto: one service with one method
FileA(a) ==
    File("a.proto", "p",
         <<Service("S", "p.S", <<Method("p.S", a, Location(9, 2, ""))>>)>>,
         <<>>, <<>>)

\* m.proto: a message with a field, a nested message and a nested enum, a
\* sibling message, an enum
FileM(f) ==
    File("m.proto", "p", <<>>,
         <<Message("p.M",
                   <<Field("p.M", f, Location(19, 4, ""))>>,
                   <<Message("p.M.N",
                             <<Field("p.M.N",
                                     FieldProfile("userId", FALSE, "", <<>>),
                                     NoLocation)>>,
                             <<>>, <<>>)>>,
                   <<Enum("p.M.E", <<EnumValue("p.M", "V", NoLocation)>>)>>),
           Message("p.MO",
                   <<Field("p.MO",
                           FieldProfile("id", TRUE, "ID", <<>>),
                           Location(29, 4, ""))>>,
                   <<>>, <<>>)>>,
         <<Enum("p.E", <<EnumValue("p", "V", Location(39, 2, "  "))>>)>>)

\* b.proto: one enum with one value
FileB(w) ==
    File("b.proto", "q", <<>>, <<>>,
         <<Enum("q.K", <<EnumValue("q", "K0", w)>>)>>)

\* FindFileByPath returned nil
NoFile == [kind |-> "none"]

\* what the compiler can return for a path
CompiledFiles(path) ==
    CASE path = "a.proto" -> {FileA(a) : a \in MethodProfiles}
      [] path = "m.proto" -> {FileM(f) : f \in FieldProfiles}
      [] OTHER -> {FileB(w) : w \in ValueProfiles}

(***************************************************************************)
(* Inputs: the configuration file and the command line.                    *)
(***************************************************************************)
Config(verbose, checks, descriptors, printAll) ==
    [VerboseMode |-> verbose, ExcludedChecks |-> checks,
     ExcludedDescriptors |-> descriptors, printAllDescriptors |-> printAll]

CheckLists ==
    {<<>>} \cup {<<r>> : r \in AllChecks}
        \cup {<<MethodHasVersion, EnumValueHasComments, FieldNameIsSnakeCase>>}

DescriptorLists ==
    {<<"p.M">>, <<"p.S">>, <<"p.E">>, <<"p.M.N">>, <<"p.M.E">>, <<"">>,
     <<"q">>, <<"p.V", "p.M.user_id", "p.V">>}

\* (ExcludedChecks, ExcludedDescriptors, VerboseMode) of a configuration file
ConfigFiles ==
    {<<c, <<>>, FALSE>> : c \in CheckLists}
        \cup {<<<<>>, d, FALSE>> : d \in DescriptorLists}
        \cup {<<<<>>, <<"p.M">>, TRUE>>, <<<<>>, <<"">>, TRUE>>,
              <<<<FieldHasCorrectJSONName>>, <<"p.S", "p.M.N.userId", "p.M.V">>, TRUE>>}

FileLists ==
    {<<>>, <<"b.proto">>, <<"a.proto">>, <<"m.proto">>,
     <<"b.proto", "a.proto">>, <<"m.proto", "b.proto">>}

(***************************************************************************)
(* State.                                                                  *)
(***************************************************************************)
VARIABLES
    subcommand,  \* "check" or "print-config"
    config,      \* the loaded *config.Config
    files,       \* the files the patterns expand to
    compiled,    \* what the compiler returned for each file compiled so far
    pc,          \* where the run is: "load", "locate", "compile", "walk", "exited"
    fileIndex,   \* processFiles: index (1-based) of the file being processed
    results,     \* processFiles: the []*OperationResult built so far
    result,      \* checkFile: the *OperationResult under construction
    agenda,      \* the descriptors the walk has yet to visit, in order
    exitCode,    \* exit status of the process, -1 while it runs
    output,      \* print-config: the configuration written to standard output
    run,         \* 1, or 2 for a check run under the generated configuration
    decodeArg,   \* the message handed to ParseProtoMessageValues on its own,
                 \* as it was before the first call
    decodeRes,   \* what the last call returned
    decodeValue, \* the same message as it is now
    cache,       \* ProtoChecker.cache: the downloaded files, by import path
    cacheMutex,  \* ProtoChecker.cacheMutex: the goroutines holding it
    accessor,    \* the Accessor call of each goroutine of the compiler
    resolverConfig  \* what the resolver reads of its *config.Config

vars ==
    <<subcommand, config, files, compiled, pc, fileIndex, results, result,
      agenda, exitCode, output, run, decodeArg, decodeRes, decodeValue,
      cache, cacheMutex, accessor, resolverConfig>>

checkerVars ==
    <<subcommand, config, files, compiled, pc, fileIndex, results, result,
      agenda, exitCode, output, run>>

decoderVars == <<decodeArg, decodeRes, decodeValue>>

resolverVars == <<cache, cacheMutex, accessor, resolverConfig>>

\* The goroutines of the compiler that call the resolver's Accessor; each
\* resolves one import path, at any time of the others' calls.
NumGoroutines == 2
Goroutines == 1..NumGoroutines

\* make(map[string][]byte, filesCount)
NoCache == [p \in {} |-> ""]

NoResponse == [err |-> "", status |-> 0, body |-> "", readErr |-> ""]

\* a goroutine that has not called the Accessor yet
Idle ==
    [at |-> "idle", path |-> "", file |-> "", resource |-> "",
     consulted |-> FALSE, cachedContent |-> "", ok |-> FALSE,
     requested |-> FALSE, response |-> NoResponse,
     from |-> "", content |-> "", err |-> ""]

NoResolverConfig == [moduleName |-> "", githubURL |-> ""]

\* NewProtoChecker: an empty cache, a mutex nobody holds
ResolverNotStarted(cfg) ==
    /\ cache = NoCache
    /\ cacheMutex = {}
    /\ accessor = [g \in Goroutines |-> Idle]
    /\ resolverConfig = cfg

NoResult == [none |-> TRUE]
NoOutput == [none |-> TRUE]
NotDecoded == [none |-> TRUE]

(***************************************************************************)
(* internal/config: config.go                                              *)
(***************************************************************************)
GetVerboseMode(cfg) == cfg.VerboseMode
GetExcludedChecks(cfg) == cfg.ExcludedChecks
GetExcludedDescriptors(cfg) == cfg.ExcludedDescriptors
GetPrintAllDescriptors(cfg) == cfg.printAllDescriptors

\* fillInnerData: the set of the names in ExcludedChecks
excludedChecksMap(cfg) ==
    {GetExcludedChecks(cfg)[i] : i \in 1..Len(GetExcludedChecks(cfg))}

\* a variant of IsCheckExcluded that excludes no check
excludeNoCheck(cfg, name) == FALSE

IsCheckExcluded(cfg, name) == name \in excludedChecksMap(cfg)

(***************************************************************************)
(* internal/checker: util.go, OperationResult                              *)
(***************************************************************************)
\* descriptors is the list of recorded full names; recordedFor keeps, for
\* each of its entries, the rule that recorded it ("visited" in record-all
\* mode).  An entry of Errors is the text of the finding together with its
\* rule and the full name of its subject.
NewOperationResult(parsedFile) ==
    [File |-> parsedFile.path, Messages |-> <<>>, Errors |-> <<>>,
     descriptors |-> <<>>, recordedFor |-> <<>>]

AddMessagef(r, text) == [r EXCEPT !.Messages = Append(@, text)]

appendErrorLocation(r, desc, message) ==
    LET line == IF desc.sl.hasPath THEN desc.sl.line + 1 ELSE 0
        column == IF desc.sl.hasPath THEN desc.sl.column + 1 ELSE 0
    IN  IF line > 0 /\ column > 0
        THEN r.File \o ":" \o ToString(line) \o ":" \o ToString(column)
                \o ": " \o message
        ELSE message

AddErrorf(r, desc, rule, message) ==
    [r EXCEPT !.Errors =
        Append(@, [text |-> appendErrorLocation(r, desc, message),
                   rule |-> rule, subject |-> desc.fullName])]

\* result.descriptors = append(result.descriptors, fullName)
appendDescriptor(r, fullName, rule) ==
    [r EXCEPT !.descriptors = Append(@, fullName),
              !.recordedFor = Append(@, rule)]

\* a variant of recordVisited with the test of the flag inverted
recordVisitedWhenOff(cfg, r, fullName) ==
    IF ~GetPrintAllDescriptors(cfg) THEN appendDescriptor(r, fullName, "visited")
    ELSE r

\* if c.config.GetPrintAllDescriptors() { append }
\* a variant of recordVisited that records the name in both modes
recordVisitedAlways(cfg, r, fullName) == appendDescriptor(r, fullName, "visited")

recordVisited(cfg, r, fullName) ==
    IF GetPrintAllDescriptors(cfg) THEN appendDescriptor(r, fullName, "visited")
    ELSE r

\* if !c.config.GetPrintAllDescriptors() { append }
recordViolating(cfg, r, fullName, rule) ==
    IF ~GetPrintAllDescriptors(cfg) THEN appendDescriptor(r, fullName, rule)
    ELSE r

(***************************************************************************)
(* internal/checker: checker.go helpers                                    *)
(***************************************************************************)
\* a variant of shouldDescriptorBeSkipped that skips no descriptor
skipNothing(cfg, name) == FALSE

\* a variant of shouldDescriptorBeSkipped that matches whole name segments
skipOnSegments(cfg, name) ==
    \E i \in 1..Len(GetExcludedDescriptors(cfg)) :
        \/ name = GetExcludedDescriptors(cfg)[i]
        \/ HasPrefix(name, GetExcludedDescriptors(cfg)[i] \o ".")

shouldDescriptorBeSkipped(cfg, name) ==
    \E i \in 1..Len(GetExcludedDescriptors(cfg)) :
        HasPrefix(name, GetExcludedDescriptors(cfg)[i])

getNameForLogs(packageName, serviceName, servicesCount, fullName) ==
    LET n1 == IF packageName # ""
              THEN TrimPrefix(fullName, JoinStrings(<<packageName, ".">>, ""))
              ELSE fullName
    IN  IF servicesCount = 1 /\ serviceName # ""
        THEN TrimPrefix(n1, JoinStrings(<<serviceName, ".">>, ""))
        ELSE n1

verbKeys == {"get", "put", "post", "delete", "patch"}

\* a variant of fillGoogleAPIHTTPPath that reads the key get alone
pathOfGet(params) == {ValuesGet(params, "get")}

\* The loop of fillGoogleAPIHTTPPath returns at the first verb key that the
\* iteration of the map meets: the set of the values it can return.
fillGoogleAPIHTTPPath(params) ==
    IF DOMAIN params \cap verbKeys = {} THEN {""}
    ELSE {IF Len(params[k]) > 0 THEN params[k][1] ELSE "" :
            k \in DOMAIN params \cap verbKeys}

isMethodWithRequiredBody(values) ==
    ValuesHas(values, "post") \/ ValuesHas(values, "put")

\* result.AddErrorf(...) followed by the recording of the violating name
reportViolation(cfg, r, desc, rule, message) ==
    recordViolating(cfg, AddErrorf(r, desc, rule, message), desc.fullName, rule)

(***************************************************************************)
(* checkMethods and checkMethodOptions, for one method                     *)
(***************************************************************************)
\* a variant of checkMethodName that expects the method name without its
\* version, followed by "Request"
checkMethodNameUnversioned(cfg, r, method, methodLogName) ==
    LET isMethodNameCorrect == validMethodNameRegexp(method.name)
        r1 == IF ~IsCheckExcluded(cfg, MethodHasVersion) /\ ~isMethodNameCorrect
              THEN reportViolation(cfg, r, method, MethodHasVersion,
                      "Name of method " \o methodLogName
                          \o " doesn't match regular expression: "
                          \o validMethodNamePattern)
              ELSE r
        expectedInputName ==
            JoinStrings(<<TrimSuffix(method.name, "V1"), "Request">>, "")
    IN  IF /\ ~IsCheckExcluded(cfg, MethodHasCorrectInputName)
           /\ isMethodNameCorrect
           /\ method.inputFullName # "google.protobuf.Empty"
           /\ method.inputName # expectedInputName
        THEN reportViolation(cfg, r1, method, MethodHasCorrectInputName,
                "Input of method " \o methodLogName \o " should be named as "
                    \o expectedInputName)
        ELSE r1

\* a variant of checkMethodName that checks the input name whatever the
\* method name is
checkMethodNameAnyVersion(cfg, r, method, methodLogName) ==
    LET isMethodNameCorrect == validMethodNameRegexp(method.name)
        r1 == IF ~IsCheckExcluded(cfg, MethodHasVersion) /\ ~isMethodNameCorrect
              THEN reportViolation(cfg, r, method, MethodHasVersion,
                      "Name of method " \o methodLogName
                          \o " doesn't match regular expression: "
                          \o validMethodNamePattern)
              ELSE r
        expectedInputName == JoinStrings(<<method.name, "Request">>, "")
    IN  IF /\ ~IsCheckExcluded(cfg, MethodHasCorrectInputName)
           /\ method.inputFullName # "google.protobuf.Empty"
           /\ method.inputName # expectedInputName
        THEN reportViolation(cfg, r1, method, MethodHasCorrectInputName,
                "Input of method " \o methodLogName \o " should be named as "
                    \o expectedInputName)
        ELSE r1

\* checker.go:186-219
checkMethodName(cfg, r, method, methodLogName) ==
    LET isMethodNameCorrect == validMethodNameRegexp(method.name)
        r1 == IF ~IsCheckExcluded(cfg, MethodHasVersion) /\ ~isMethodNameCorrect
              THEN reportViolation(cfg, r, method, MethodHasVersion,
                      "Name of method " \o methodLogName
                          \o " doesn't match regular expression: "
                          \o validMethodNamePattern)
              ELSE r
        expectedInputName == JoinStrings(<<method.name, "Request">>, "")
    IN  IF /\ ~IsCheckExcluded(cfg, MethodHasCorrectInputName)
           /\ isMethodNameCorrect
           /\ method.inputFullName # "google.protobuf.Empty"
           /\ method.inputName # expectedInputName
        THEN reportViolation(cfg, r1, method, MethodHasCorrectInputName,
                "Input of method " \o methodLogName \o " should be named as "
                    \o expectedInputName)
        ELSE r1

\* checker.go:249-260
checkHTTPPath(cfg, r, method, methodLogName, googleAPIHTTPPath) ==
    IF ~IsCheckExcluded(cfg, MethodHasHTTPPath) /\ googleAPIHTTPPath = ""
    THEN reportViolation(cfg, r, method, MethodHasHTTPPath,
            "Path of method " \o methodLogName \o " is not specified")
    ELSE r

\* a variant of checkBodyTag that accepts any body that is not empty
checkBodyTagNotEmpty(cfg, r, method, methodLogName, parsedOptions) ==
    IF /\ ~IsCheckExcluded(cfg, MethodHasBodyTag)
       /\ isMethodWithRequiredBody(parsedOptions)
       /\ ValuesGet(parsedOptions, "body") = ""
    THEN reportViolation(cfg, r, method, MethodHasBodyTag,
            "Method " \o methodLogName
                \o " doesn't have body tag or body is not equal to *")
    ELSE r

\* checker.go:262-273
checkBodyTag(cfg, r, method, methodLogName, parsedOptions) ==
    IF /\ ~IsCheckExcluded(cfg, MethodHasBodyTag)
       /\ isMethodWithRequiredBody(parsedOptions)
       /\ ValuesGet(parsedOptions, "body") # "*"
    THEN reportViolation(cfg, r, method, MethodHasBodyTag,
            "Method " \o methodLogName
                \o " doesn't have body tag or body is not equal to *")
    ELSE r

\* a variant of parseFailure that reports the failure as an error finding
parseFailureAsFinding(r, option, kindOfOwner, logName, err) ==
    [r EXCEPT !.Errors =
        Append(@, [text |-> "Failed to parse option " \o option.fullName
                              \o " of " \o kindOfOwner \o " " \o logName
                              \o ": " \o err,
                   rule |-> "", subject |-> ""])]

\* "Failed to parse option ..." (checker.go:238-246, 275-283, 443-451)
parseFailure(r, option, kindOfOwner, logName, err) ==
    AddMessagef(r, "Failed to parse option " \o option.fullName
                    \o " of " \o kindOfOwner \o " " \o logName \o ": " \o err)

\* case "google.api.http" once the option is decoded: the results it can leave
checkHTTPParsed(cfg, r, method, methodLogName, option, parsed) ==
    IF parsed.err # ""
    THEN {parseFailure(r, option, "method", methodLogName, parsed.err)}
    ELSE {checkBodyTag(cfg,
              checkHTTPPath(cfg, r, method, methodLogName, p),
              method, methodLogName, parsed.u) :
            p \in fillGoogleAPIHTTPPath(parsed.u)}

\* case "google.api.http" (checker.go:236-272)
checkHTTPOption(cfg, r, method, methodLogName, option) ==
    checkHTTPParsed(cfg, r, method, methodLogName, option,
        ParseProtoMessageValues(option.value))

\* checker.go:285-295
checkSwaggerTags(cfg, r, method, methodLogName, parsedOptions) ==
    IF /\ ~IsCheckExcluded(cfg, MethodHasSwaggerTags)
       /\ ValuesGet(parsedOptions, "tags") = ""
    THEN reportViolation(cfg, r, method, MethodHasSwaggerTags,
            "Method " \o methodLogName \o " has no swagger tags")
    ELSE r

\* checker.go:297-307
checkSwaggerSummary(cfg, r, method, methodLogName, parsedOptions) ==
    IF /\ ~IsCheckExcluded(cfg, MethodHasSwaggerSummary)
       /\ ValuesGet(parsedOptions, "summary") = ""
    THEN reportViolation(cfg, r, method, MethodHasSwaggerSummary,
            "Method " \o methodLogName \o " has no swagger summary")
    ELSE r

\* checker.go:309-319
checkSwaggerDescription(cfg, r, method, methodLogName, parsedOptions) ==
    IF /\ ~IsCheckExcluded(cfg, MethodHasSwaggerDescription)
       /\ ValuesGet(parsedOptions, "description") = ""
    THEN reportViolation(cfg, r, method, MethodHasSwaggerDescription,
            "Method " \o methodLogName \o " has no swagger description")
    ELSE r

\* checker.go:321-328: the finding is added, the name is not recorded
checkDefaultErrorResponse(cfg, r, method, methodLogName, parsedOptions) ==
    IF /\ ~IsCheckExcluded(cfg, MethodHasDefaultErrorResponse)
       /\ ValuesGet(parsedOptions, "responses[default]") = ""
    THEN AddErrorf(r, method, MethodHasDefaultErrorResponse,
            "Method " \o methodLogName \o " doesn't have a default error response")
    ELSE r

\* case "...openapiv2_operation" once the option is decoded
checkOperationParsed(cfg, r, method, methodLogName, option, parsed) ==
    IF parsed.err # ""
    THEN parseFailure(r, option, "method", methodLogName, parsed.err)
    ELSE checkDefaultErrorResponse(cfg,
            checkSwaggerDescription(cfg,
                checkSwaggerSummary(cfg,
                    checkSwaggerTags(cfg, r, method, methodLogName, parsed.u),
                    method, methodLogName, parsed.u),
                method, methodLogName, parsed.u),
            method, methodLogName, parsed.u)

\* case "...openapiv2_operation" (checker.go:273-328)
checkOperationOption(cfg, r, method, methodLogName, option) ==
    checkOperationParsed(cfg, r, method, methodLogName, option,
        ParseProtoMessageValues(option.value))

\* one call of the function Range is given (checker.go:232-331)
checkMethodOption(cfg, r, method, methodLogName, option) ==
    CASE option.fullName = httpOptionName ->
            checkHTTPOption(cfg, r, method, methodLogName, option)
      [] option.fullName = operationOptionName ->
            {checkOperationOption(cfg, r, method, methodLogName, option)}
      [] OTHER -> {r}

\* checkMethodOptions from the i-th option on, started from any of rs
RECURSIVE checkMethodOptionsFrom(_, _, _, _, _)
checkMethodOptionsFrom(cfg, rs, method, methodLogName, i) ==
    IF i > Len(method.options) THEN rs
    ELSE checkMethodOptionsFrom(cfg,
            UNION {checkMethodOption(cfg, r, method, methodLogName,
                                     method.options[i]) : r \in rs},
            method, methodLogName, i + 1)

\* a variant of checkMethodOptions that asks a method without the option
\* google.api.http for a path
checkMethodOptionsRequiringHTTP(cfg, r, method, methodLogName) ==
    checkMethodOptionsFrom(cfg,
        {IF \A k \in 1..Len(method.options) :
                method.options[k].fullName # httpOptionName
         THEN checkHTTPPath(cfg, r, method, methodLogName, "")
         ELSE r},
        method, methodLogName, 1)

checkMethodOptions(cfg, r, method, methodLogName) ==
    checkMethodOptionsFrom(cfg, {r}, method, methodLogName, 1)

(***************************************************************************)
(* checkMessageFields and checkFieldOptions, for one field                 *)
(***************************************************************************)
\* checker.go:398-424
checkFieldName(cfg, r, field, fieldLogName) ==
    LET isFieldNameSnakeCase == snakeCaseNameRegexp(field.name)
        r1 == IF ~IsCheckExcluded(cfg, FieldNameIsSnakeCase) /\ ~isFieldNameSnakeCase
              THEN reportViolation(cfg, r, field, FieldNameIsSnakeCase,
                      "Name of field " \o fieldLogName
                          \o " doesn't match regular expression: "
                          \o snakeCaseNamePattern)
              ELSE r
    IN  IF /\ ~IsCheckExcluded(cfg, FieldHasCorrectJSONName)
           /\ field.hasJSONName
           /\ field.name # field.jsonName
        THEN reportViolation(cfg, r1, field, FieldHasCorrectJSONName,
                "Field " \o fieldLogName \o " has incorrect json_name tag")
        ELSE r1

\* checker.go:455-465
checkHasDescription(cfg, r, field, fieldLogName, fieldDescription) ==
    IF ~IsCheckExcluded(cfg, FieldHasNoDescription) /\ fieldDescription = ""
    THEN reportViolation(cfg, r, field, FieldHasNoDescription,
            "Field " \o fieldLogName \o " in doesn't have description")
    ELSE r

\* a variant of checkStartsWithCapital that also runs on an empty description
checkStartsWithCapitalOrEmpty(cfg, r, field, fieldLogName, fieldDescription) ==
    IF /\ ~IsCheckExcluded(cfg, FieldDescriptionStartsWithCapital)
       /\ ~startsWithCapitalLetter(fieldDescription)
    THEN reportViolation(cfg, r, field, FieldDescriptionStartsWithCapital,
            "Description of field " \o fieldLogName
                \o " doesn't start with capital letter")
    ELSE r

\* checker.go:467-478
checkStartsWithCapital(cfg, r, field, fieldLogName, fieldDescription) ==
    IF /\ ~IsCheckExcluded(cfg, FieldDescriptionStartsWithCapital)
       /\ fieldDescription # ""
       /\ ~startsWithCapitalLetter(fieldDescription)
    THEN reportViolation(cfg, r, field, FieldDescriptionStartsWithCapital,
            "Description of field " \o fieldLogName
                \o " doesn't start with capital letter")
    ELSE r

\* checker.go:480-492
checkEndsWithDotOrQuestionMark(cfg, r, field, fieldLogName, fieldDescription) ==
    IF /\ ~IsCheckExcluded(cfg, FieldDescriptionEndsWithDotOrQuestionMark)
       /\ fieldDescription # ""
       /\ ~HasSuffix(fieldDescription, ".")
       /\ ~HasSuffix(fieldDescription, "?")
    THEN reportViolation(cfg, r, field, FieldDescriptionEndsWithDotOrQuestionMark,
            "Description of field " \o fieldLogName
                \o " must end with dot or question mark")
    ELSE r

\* the three description rules, in the order of the source
\* a variant of checkFieldDescription where the exclusion of the rule
\* field_has_no_description turns the two other rules off too
checkFieldDescriptionChained(cfg, r, field, fieldLogName, fieldDescription) ==
    IF IsCheckExcluded(cfg, FieldHasNoDescription) THEN r
    ELSE checkEndsWithDotOrQuestionMark(cfg,
            checkStartsWithCapital(cfg,
                checkHasDescription(cfg, r, field, fieldLogName, fieldDescription),
                field, fieldLogName, fieldDescription),
            field, fieldLogName, fieldDescription)

checkFieldDescription(cfg, r, field, fieldLogName, fieldDescription) ==
    checkEndsWithDotOrQuestionMark(cfg,
        checkStartsWithCapital(cfg,
            checkHasDescription(cfg, r, field, fieldLogName, fieldDescription),
            field, fieldLogName, fieldDescription),
        field, fieldLogName, fieldDescription)

\* the openapiv2_field option once it is decoded
checkFieldParsed(cfg, r, field, fieldLogName, option, parsed) ==
    IF parsed.err # ""
    THEN parseFailure(r, option, "field", fieldLogName, parsed.err)
    ELSE checkFieldDescription(cfg, r, field, fieldLogName,
            ValuesGet(parsed.u, "description"))

\* one call of the function Range is given (checker.go:436-495)
checkFieldOption(cfg, r, field, fieldLogName, option) ==
    IF option.fullName # fieldOptionName THEN r
    ELSE checkFieldParsed(cfg, r, field, fieldLogName, option,
            ParseProtoMessageValues(option.value))

RECURSIVE checkFieldOptionsFrom(_, _, _, _, _)
checkFieldOptionsFrom(cfg, r, field, fieldLogName, i) ==
    IF i > Len(field.options) THEN r
    ELSE checkFieldOptionsFrom(cfg,
            checkFieldOption(cfg, r, field, fieldLogName, field.options[i]),
            field, fieldLogName, i + 1)

checkFieldOptions(cfg, r, field, fieldLogName) ==
    checkFieldOptionsFrom(cfg, r, field, fieldLogName, 1)

\* a variant of checkEnumValue that does not trim the leading comments
checkEnumValueUntrimmed(cfg, r, enumValue, enumValueLogName) ==
    LET enumValueSL == enumValue.sl
        noEnumValueCommentsFound ==
            ~enumValueSL.hasPath \/ enumValueSL.leading = ""
    IN  IF ~IsCheckExcluded(cfg, EnumValueHasComments) /\ noEnumValueCommentsFound
        THEN reportViolation(cfg, r, enumValue, EnumValueHasComments,
                "Enum value " \o enumValueLogName \o " has no leading comments")
        ELSE r

\* checker.go:548-568
checkEnumValue(cfg, r, enumValue, enumValueLogName) ==
    LET enumValueSL == enumValue.sl
        noEnumValueCommentsFound ==
            ~enumValueSL.hasPath \/ TrimSpace(enumValueSL.leading) = ""
    IN  IF ~IsCheckExcluded(cfg, EnumValueHasComments) /\ noEnumValueCommentsFound
        THEN reportViolation(cfg, r, enumValue, EnumValueHasComments,
                "Enum value " \o enumValueLogName \o " has no leading comments")
        ELSE r

(***************************************************************************)
(* The walk.  An item of the agenda is a descriptor with the arguments the *)
(* enclosing calls pass down to it.                                        *)
(***************************************************************************)
Item(el, parsedFileFullName, serviceName, servicesCount, enumLogName) ==
    [el |-> el, parsedFileFullName |-> parsedFileFullName,
     serviceName |-> serviceName, servicesCount |-> servicesCount,
     enumLogName |-> enumLogName]

Items(els, parsedFileFullName, serviceName, servicesCount, enumLogName) ==
    [i \in 1..Len(els) |->
        Item(els[i], parsedFileFullName, serviceName, servicesCount, enumLogName)]

Exit(code) ==
    /\ pc' = "exited"
    /\ exitCode' = code

\* logger.Fatalf: the process ends with status 1
Fatalf ==
    /\ Exit(1)
    /\ results' = <<>>
    /\ result' = NoResult
    /\ agenda' = <<>>

(***************************************************************************)
(* cmd.go: runSubcommandOnFiles                                            *)
(***************************************************************************)
\* cmd.go:54-57, LoadConfig returned an error
LoadConfigFails ==
    /\ pc = "load"
    /\ Fatalf
    /\ UNCHANGED <<resolverVars, decoderVars, subcommand, config, files, compiled, fileIndex, output, run>>

\* cmd.go:54-64
LoadConfig ==
    /\ pc = "load"
    /\ pc' = "locate"
    /\ UNCHANGED <<resolverVars, decoderVars, subcommand, config, files, compiled, fileIndex, results,
                   result, agenda, exitCode, output, run>>

\* cmd.go:73-75, the patterns could not be expanded
ExtractFilesFails ==
    /\ pc = "locate"
    /\ Fatalf
    /\ UNCHANGED <<resolverVars, decoderVars, subcommand, config, files, compiled, fileIndex, output, run>>

\* cmd.go:77-80
NoFilesFound ==
    /\ pc = "locate"
    /\ Len(files) = 0
    /\ Exit(0)
    /\ UNCHANGED <<resolverVars, decoderVars, subcommand, config, files, compiled, fileIndex, results,
                   result, agenda, output, run>>

\* cmd.go:82-84, checker.go:88: CheckFiles starts
CheckFiles ==
    /\ pc = "locate"
    /\ Len(files) > 0
    /\ pc' = "compile"
    /\ fileIndex' = 1
    /\ results' = <<>>
    /\ UNCHANGED <<resolverVars, decoderVars, subcommand, config, files, compiled, result, agenda,
                   exitCode, output, run>>

\* a variant of CompileFails that keeps the results built so far
CompileFailsKeepingResults ==
    /\ pc = "compile"
    /\ fileIndex <= Len(files)
    /\ files[fileIndex] \notin DOMAIN compiled
    /\ Exit(1)
    /\ result' = NoResult
    /\ agenda' = <<>>
    /\ UNCHANGED <<resolverVars, decoderVars, subcommand, config, files, compiled, fileIndex,
                   results, output, run>>

(***************************************************************************)
(* checker.go: processFiles and checkFile                                  *)
(***************************************************************************)
\* checker.go:91-94 and cmd.go:85-87: the compiler failed on the file; it
\* gives a file the same outcome in both runs
CompileFails ==
    /\ pc = "compile"
    /\ fileIndex <= Len(files)
    /\ files[fileIndex] \notin DOMAIN compiled
    /\ Fatalf
    /\ UNCHANGED <<resolverVars, decoderVars, subcommand, config, files, compiled, fileIndex, output, run>>

\* checker.go:96-99: the compiled set does not hold the file
FileNotFound ==
    /\ pc = "compile"
    /\ fileIndex <= Len(files)
    /\ files[fileIndex] \in DOMAIN compiled => compiled[files[fileIndex]].kind = "none"
    /\ compiled' = [p \in DOMAIN compiled \cup {files[fileIndex]} |->
                        IF p = files[fileIndex] THEN NoFile ELSE compiled[p]]
    /\ fileIndex' = fileIndex + 1
    /\ UNCHANGED <<resolverVars, decoderVars, subcommand, config, files, pc, results,
                   result, agenda, exitCode, output, run>>

\* checker.go:91-101 and 107-126: the file compiles and checkFile starts
CheckFile ==
    /\ pc = "compile"
    /\ fileIndex <= Len(files)
    /\ \E parsedFile \in CompiledFiles(files[fileIndex]) :
        /\ files[fileIndex] \in DOMAIN compiled =>
                /\ compiled[files[fileIndex]].kind = "file"
                /\ parsedFile = compiled[files[fileIndex]]
        /\ compiled' = [p \in DOMAIN compiled \cup {files[fileIndex]} |->
                            IF p = files[fileIndex] THEN parsedFile ELSE compiled[p]]
        /\ LET packageName == parsedFile.package
               parsedFileFullName == parsedFile.fullName
               r0 == recordVisited(config, NewOperationResult(parsedFile),
                                   parsedFileFullName)
           IN  IF shouldDescriptorBeSkipped(config, parsedFileFullName)
               THEN /\ results' = Append(results,
                            IF GetVerboseMode(config)
                            THEN AddMessagef(r0, "Package " \o packageName \o " is skipped")
                            ELSE r0)
                    /\ fileIndex' = fileIndex + 1
                    /\ UNCHANGED <<pc, result, agenda>>
               ELSE /\ result' = r0
                    /\ agenda' =
                          Items(parsedFile.services, parsedFileFullName, "",
                                Len(parsedFile.services), "")
                            \o Items(parsedFile.messages, parsedFileFullName, "", 0, "")
                            \o Items(parsedFile.enums, parsedFileFullName, "", 0, "")
                    /\ pc' = "walk"
                    /\ UNCHANGED <<results, fileIndex>>
    /\ UNCHANGED <<resolverVars, decoderVars, subcommand, config, files, exitCode, output, run>>

\* checker.go:101: checkFile returned, its result is appended
FileChecked ==
    /\ pc = "walk"
    /\ agenda = <<>>
    /\ results' = Append(results, result)
    /\ result' = NoResult
    /\ fileIndex' = fileIndex + 1
    /\ pc' = "compile"
    /\ UNCHANGED <<resolverVars, decoderVars, subcommand, config, files, compiled, agenda, exitCode,
                   output, run>>

Visiting(kind) ==
    /\ pc = "walk"
    /\ agenda # <<>>
    /\ Head(agenda).el.kind = kind

\* a variant of Walked that leaves the walk at the first error finding
WalkedUntilFinding(r, children) ==
    /\ result' = r
    /\ agenda' = IF Len(r.Errors) > 0 THEN <<>> ELSE children \o Tail(agenda)
    /\ UNCHANGED <<resolverVars, decoderVars, subcommand, config, files, compiled, pc, fileIndex, results,
                   exitCode, output, run>>

Walked(r, children) ==
    /\ result' = r
    /\ agenda' = children \o Tail(agenda)
    /\ UNCHANGED <<resolverVars, decoderVars, subcommand, config, files, compiled, pc, fileIndex, results,
                   exitCode, output, run>>

\* checkServices, one iteration (checker.go:138-154)
VisitService ==
    /\ Visiting("service")
    /\ LET item == Head(agenda)
           service == item.el
           r0 == recordVisited(config, result, service.fullName)
       IN  IF shouldDescriptorBeSkipped(config, service.fullName)
           THEN Walked(IF GetVerboseMode(config)
                       THEN AddMessagef(r0, "Service " \o service.name \o " is skipped")
                       ELSE r0, <<>>)
           ELSE Walked(r0, Items(service.methods, item.parsedFileFullName,
                                 service.name, item.servicesCount, ""))

\* checkMethods, one iteration (checker.go:165-221)
VisitMethod ==
    /\ Visiting("method")
    /\ LET item == Head(agenda)
           method == item.el
           methodLogName == getNameForLogs(item.parsedFileFullName,
                                item.serviceName, item.servicesCount,
                                method.fullName)
           r0 == recordVisited(config, result, method.fullName)
       IN  IF shouldDescriptorBeSkipped(config, method.fullName)
           THEN Walked(IF GetVerboseMode(config)
                       THEN AddMessagef(r0, "Method " \o methodLogName \o " is skipped")
                       ELSE r0, <<>>)
           ELSE \E r \in checkMethodOptions(config,
                            checkMethodName(config, r0, method, methodLogName),
                            method, methodLogName) :
                    Walked(r, <<>>)

\* checkMessages, one iteration (checker.go:343-366)
VisitMessage ==
    /\ Visiting("message")
    /\ LET item == Head(agenda)
           message == item.el
           messageLogName == getNameForLogs(item.parsedFileFullName, "", 0,
                                            message.fullName)
           r0 == recordVisited(config, result, message.fullName)
       IN  IF shouldDescriptorBeSkipped(config, message.fullName)
           THEN Walked(IF GetVerboseMode(config)
                       THEN AddMessagef(r0, "Message " \o messageLogName \o " is skipped")
                       ELSE r0, <<>>)
           ELSE Walked(r0,
                    Items(message.fields, item.parsedFileFullName, "", 0, "")
                      \o Items(message.messages, item.parsedFileFullName, "", 0, "")
                      \o Items(message.enums, item.parsedFileFullName, "", 0, ""))

\* checkMessageFields, one iteration (checker.go:376-426)
VisitField ==
    /\ Visiting("field")
    /\ LET item == Head(agenda)
           field == item.el
           fieldLogName == getNameForLogs(item.parsedFileFullName, "", 0,
                                          field.fullName)
           r0 == recordVisited(config, result, field.fullName)
       IN  IF shouldDescriptorBeSkipped(config, field.fullName)
           THEN Walked(IF GetVerboseMode(config)
                       THEN AddMessagef(r0, "Field " \o fieldLogName \o " is skipped")
                       ELSE r0, <<>>)
           ELSE Walked(checkFieldOptions(config,
                            checkFieldName(config, r0, field, fieldLogName),
                            field, fieldLogName), <<>>)

\* checkEnums, one iteration of the outer loop (checker.go:506-526)
VisitEnum ==
    /\ Visiting("enum")
    /\ LET item == Head(agenda)
           enum == item.el
           enumLogName == getNameForLogs(item.parsedFileFullName, "", 0,
                                         enum.fullName)
           r0 == recordVisited(config, result, enum.fullName)
       IN  IF shouldDescriptorBeSkipped(config, enum.fullName)
           THEN Walked(IF GetVerboseMode(config)
                       THEN AddMessagef(r0, "Enum " \o enumLogName \o " is skipped")
                       ELSE r0, <<>>)
           ELSE Walked(r0, Items(enum.values, item.parsedFileFullName, "", 0,
                                 enumLogName))

\* checkEnums, one iteration of the inner loop (checker.go:528-568)
VisitEnumValue ==
    /\ Visiting("enumvalue")
    /\ LET item == Head(agenda)
           enumValue == item.el
           enumValueLogName == JoinStrings(<<item.enumLogName, enumValue.name>>, ".")
           r0 == recordVisited(config, result, enumValue.fullName)
       IN  IF shouldDescriptorBeSkipped(config, enumValue.fullName)
           THEN Walked(IF GetVerboseMode(config)
                       THEN AddMessagef(r0, "Enum value " \o enumValueLogName
                                                \o " is skipped")
                       ELSE r0, <<>>)
           ELSE Walked(checkEnumValue(config, r0, enumValue, enumValueLogName), <<>>)

(***************************************************************************)
(* cmd.go: processResults and generateConfig                               *)
(***************************************************************************)
\* the characters of full names and rule names, in the order of their codes
asciiOrder ==
    ".0123456789ABCDEFGHIJKLMNOPQRSTUVWXYZ_abcdefghijklmnopqrstuvwxyz"

\* a < b for Go strings: bytewise comparison
RECURSIVE StringLess(_, _)
StringLess(a, b) ==
    IF Len(b) = 0 THEN FALSE
    ELSE IF Len(a) = 0 THEN TRUE
    ELSE LET ca == IndexOf(asciiOrder, CharAt(a, 0))
             cb == IndexOf(asciiOrder, CharAt(b, 0))
         IN  IF ca # cb THEN ca < cb
             ELSE StringLess(SubSeq(a, 2, Len(a)), SubSeq(b, 2, Len(b)))

\* sort.Strings of a slice: insertion of the elements one by one
RECURSIVE insertSorted(_, _)
insertSorted(sorted, x) ==
    IF Len(sorted) = 0 THEN <<x>>
    ELSE IF StringLess(x, Head(sorted)) THEN <<x>> \o sorted
    ELSE <<Head(sorted)>> \o insertSorted(Tail(sorted), x)

RECURSIVE sortStrings(_)
sortStrings(list) ==
    IF Len(list) = 0 THEN <<>>
    ELSE insertSorted(sortStrings(Tail(list)), Head(list))

\* the keys of a map[string]struct{} collected into a slice, then sorted
RECURSIVE sortedKeys(_)
sortedKeys(keys) ==
    IF keys = {} THEN <<>>
    ELSE LET k == CHOOSE x \in keys : TRUE
         IN  insertSorted(sortedKeys(keys \ {k}), k)

\* a variant of allResultDescriptors that reads the first result alone
firstResultDescriptors(rs) ==
    IF Len(rs) = 0 THEN <<>> ELSE Head(rs).descriptors

RECURSIVE allResultDescriptors(_)
allResultDescriptors(rs) ==
    IF Len(rs) = 0 THEN <<>>
    ELSE Head(rs).descriptors \o allResultDescriptors(Tail(rs))

\* cmd.go:120-155: the configuration handed to MarshalConfig
generateConfig(cfg, rs) ==
    LET finalChecks == sortStrings(GetExcludedChecks(cfg))
        allDescriptors == GetExcludedDescriptors(cfg) \o allResultDescriptors(rs)
        uniqueDescriptors == {allDescriptors[i] : i \in 1..Len(allDescriptors)}
        finalDescriptors == sortedKeys(uniqueDescriptors)
    IN  [VerboseMode |-> GetVerboseMode(cfg),
         ExcludedChecks |-> finalChecks,
         ExcludedDescriptors |-> finalDescriptors]

\* yaml.Marshal of a list of strings under a key: the lines of the document;
\* the empty string is written quoted
yamlList(key, list) ==
    IF Len(list) = 0 THEN <<key \o ": []">>
    ELSE <<key \o ":">>
            \o [i \in 1..Len(list) |->
                    "    - " \o (IF list[i] = "" THEN "\"\"" ELSE list[i])]

\* config.go:67-78
MarshalConfig(v) ==
    <<"verbose_mode: " \o (IF v.VerboseMode THEN "true" ELSE "false")>>
        \o yamlList("excluded_checks", v.ExcludedChecks)
        \o yamlList("excluded_descriptors", v.ExcludedDescriptors)

\* the items of the list that follows the line "key:" of a document
RECURSIVE yamlItemsFrom(_, _)
yamlItemsFrom(lines, i) ==
    IF i > Len(lines) \/ ~HasPrefix(lines[i], "    - ") THEN <<>>
    ELSE LET text == TrimPrefix(lines[i], "    - ")
         IN  <<IF text = "\"\"" THEN "" ELSE text>> \o yamlItemsFrom(lines, i + 1)

yamlItems(lines, key) ==
    IF \E i \in 1..Len(lines) : lines[i] = key \o ":"
    THEN yamlItemsFrom(lines, (CHOOSE i \in 1..Len(lines) : lines[i] = key \o ":") + 1)
    ELSE <<>>

\* config.go:27-64: viper reads the document, the flags are added
LoadConfigFrom(lines, printAllDescriptors) ==
    Config(\E i \in 1..Len(lines) : lines[i] = "verbose_mode: true",
           yamlItems(lines, "excluded_checks"),
           yamlItems(lines, "excluded_descriptors"),
           printAllDescriptors)

AllFilesProcessed ==
    /\ pc = "compile"
    /\ fileIndex > Len(files)

\* a variant of processResults that fails on a result with messages alone
processResultsFailingOnMessages ==
    /\ AllFilesProcessed
    /\ subcommand = "check"
    /\ LET isCheckFailed ==
              \E i \in 1..Len(results) :
                  ~(Len(results[i].Messages) = 0 /\ Len(results[i].Errors) = 0)
       IN  Exit(IF isCheckFailed THEN 1 ELSE 0)
    /\ UNCHANGED <<resolverVars, decoderVars, subcommand, config, files, compiled, fileIndex,
                   results, result, agenda, output, run>>

\* cmd.go:92-118, then the return of ExecuteCheck
processResults ==
    /\ AllFilesProcessed
    /\ subcommand = "check"
    /\ LET isCheckFailed ==
              \E i \in 1..Len(results) :
                  /\ ~(Len(results[i].Messages) = 0 /\ Len(results[i].Errors) = 0)
                  /\ Len(results[i].Errors) > 0
       IN  Exit(IF isCheckFailed THEN 1 ELSE 0)
    /\ UNCHANGED <<resolverVars, decoderVars, subcommand, config, files, compiled, fileIndex, results,
                   result, agenda, output, run>>

\* cmd.go:40-47: ExecutePrintConfig prints the generated configuration
printConfig ==
    /\ AllFilesProcessed
    /\ subcommand = "print-config"
    /\ output' = MarshalConfig(generateConfig(config, results))
    /\ Exit(0)
    /\ UNCHANGED <<resolverVars, decoderVars, subcommand, config, files, compiled, fileIndex, results,
                   result, agenda, run>>

\* Makefile.example, generate-pb-lint-config then pb-lint-full: print-config,
\* run without the flag that records every descriptor, writes
\* .protolinter.yaml and check runs on the same files
CheckWithGeneratedConfig ==
    /\ pc = "exited"
    /\ subcommand = "print-config"
    /\ ~GetPrintAllDescriptors(config)
    /\ exitCode = 0
    /\ output # NoOutput
    /\ run = 1
    /\ subcommand' = "check"
    /\ config' = LoadConfigFrom(output, FALSE)
    /\ pc' = "load"
    /\ exitCode' = -1
    /\ fileIndex' = 0
    /\ results' = <<>>
    /\ result' = NoResult
    /\ agenda' = <<>>
    /\ run' = 2
    /\ UNCHANGED <<resolverVars, decoderVars, files, compiled, output>>

(***************************************************************************)
(* Specification                                                           *)
(***************************************************************************)
\* ExecuteCheck sets printAllDescriptors to false (cmd.go:21); print-config
\* takes it from its flag
Init ==
    /\ subcommand \in {"check", "print-config"}
    /\ \E cf \in ConfigFiles, printAll \in BOOLEAN :
          /\ subcommand = "check" => ~printAll
          /\ config = Config(cf[3], cf[1], cf[2], printAll)
    /\ files \in FileLists
    /\ compiled = [p \in {} |-> <<>>]
    /\ pc = "load"
    /\ fileIndex = 0
    /\ results = <<>>
    /\ result = NoResult
    /\ agenda = <<>>
    /\ exitCode = -1
    /\ output = NoOutput
    /\ run = 1
    /\ decodeArg = Msg("", <<>>)
    /\ decodeRes = NotDecoded
    /\ decodeValue = decodeArg
    /\ ResolverNotStarted(NoResolverConfig)

Next ==
    \/ LoadConfigFails
    \/ LoadConfig
    \/ ExtractFilesFails
    \/ NoFilesFound
    \/ CheckFiles
    \/ CompileFails
    \/ FileNotFound
    \/ CheckFile
    \/ FileChecked
    \/ VisitService
    \/ VisitMethod
    \/ VisitMessage
    \/ VisitField
    \/ VisitEnum
    \/ VisitEnumValue
    \/ processResults
    \/ printConfig
    \/ CheckWithGeneratedConfig

Spec == Init /\ [][Next]_vars

(***************************************************************************)
(* The decoder on its own: ParseProtoMessageValues applied to one message. *)
(* A field with its zero value is not populated, so it is not among the    *)
(* fields Range yields.                                                    *)
(***************************************************************************)
Temporal(typeName, secs, nanos) ==
    Msg(typeName,
        (IF BigIsZero(secs) THEN <<>>
         ELSE <<Fld("seconds", "single", "int64", "", secs)>>)
          \o (IF nanos = 0 THEN <<>>
              ELSE <<Fld("nanos", "single", "int32", "", nanos)>>))

Timestamp(secs, nanos) == Temporal(timestampMessageFullname, secs, nanos)
Duration(secs, nanos) == Temporal(durationMessageFullname, IntToBig(secs), nanos)

\* the seconds around the two bounds of marshalTimestamp
TimestampSeconds ==
    {Big(TRUE, 6213559, 680014), minTimestampSeconds, Big(TRUE, 0, 1), BigZero,
     Big(FALSE, 0, 1), maxTimestampSeconds, Big(FALSE, 253402, 300800)}

TimestampNanos == {-1, 0, 1, secondsInNanos, secondsInNanos + 1}

Timestamps == {Timestamp(s, n) : s \in TimestampSeconds, n \in TimestampNanos}

\* a record with a singular timestamp field
Event(t) ==
    Msg("t.Event", <<Str("name", "x"),
                     Fld("at", "single", "message", timestampMessageFullname, t)>>)

\* a record with a repeated timestamp field
Log(ts) ==
    Msg("t.Log", <<Str("name", "x"),
                   Fld("at", "list", "message", timestampMessageFullname, ts)>>)

\* a record with a singular duration field; seconds is an int64, nanos an int32
Job(d) ==
    Msg("t.Job", <<Fld("ttl", "single", "message", durationMessageFullname, d)>>)

DurationSeconds == MinInt64..MaxInt64
DurationNanos == -(MaxNanosField + 1)..MaxNanosField

\* records of the other kinds, cardinalities and nestings
Records ==
    {HttpPostBody, HttpCustom, HttpBindings, OperationFull, OperationSecurity,
     OperationEmpty,
     Msg("t.Scalars",
         <<Fld("on", "single", "bool", "", TRUE),
           Fld("state", "single", "enum", "t.State", "ACTIVE"),
           Fld("nothing", "single", "enum", "google.protobuf.NullValue",
               "NULL_VALUE"),
           Fld("count", "single", "int32", "", 7),
           Fld("blob", "single", "bytes", "", <<104, 105>>),
           Fld("names", "list", "string", "", <<"a", "b">>),
           Fld("labels", "map", "string", "", <<[k |-> "env", v |-> "prod"]>>)>>),
     Msg("t.Wrapped",
         <<Fld("text", "single", "message", "google.protobuf.StringValue",
               Msg("google.protobuf.StringValue", <<Str("value", "x")>>)),
           Fld("raw", "single", "message", bytesMessageFullname,
               Msg(bytesMessageFullname,
                   <<Fld("value", "single", "bytes", "", <<104>>)>>)),
           Fld("mask", "single", "message", fieldMaskFullName,
               Msg(fieldMaskFullName,
                   <<Fld("paths", "list", "string", "", <<"foo_bar", "baz">>)>>))>>),
     \* a map whose values are records outside the well-known list
     Msg("t.Index",
         <<Fld("rules", "map", "message", "google.api.HttpRule",
               <<[k |-> "a", v |-> HttpGet]>>)>>),
     \* a repeated out-of-range timestamp two records deep
     Msg("t.Outer",
         <<Fld("inner", "single", "message", "t.Log",
               Log(<<Timestamp(Big(FALSE, 253402, 300800), 0)>>))>>),
     Msg("t.Outer",
         <<Fld("inner", "single", "message", "t.Event",
               Event(Timestamp(Big(FALSE, 0, 1), 1)))>>)}

\* a google.protobuf.FieldMask held as *fieldmaskpb.FieldMask, and one held
\* in another implementation of protoreflect.Message (dynamicpb), for which
\* the type assertion of parser.go:189 fails
FieldMask(paths) ==
    Msg(fieldMaskFullName, <<Fld("paths", "list", "string", "", paths)>>)

DynamicFieldMask(paths) ==
    [type |-> fieldMaskFullName,
     fields |-> <<Fld("paths", "list", "string", "", paths)>>,
     dynamic |-> TRUE]

MaskPaths ==
    {<<"foo_bar", "baz">>, <<"a__b">>, <<"_x", "y_">>,
     <<"user_id1", "x_9y", "fooBar">>, <<"A_b_C", "b_A">>}

\* a record with a singular field-mask field
Masked(mask) ==
    Msg("t.Masked", <<Fld("mask", "single", "message", fieldMaskFullName, mask)>>)

\* a record with an empty repeated field, an empty map and a repeated scalar
Sparse ==
    Msg("t.Sparse",
        <<Str("name", "x"),
          Fld("names", "list", "string", "", <<>>),
          Fld("labels", "map", "string", "", <<>>),
          Fld("tags", "list", "string", "", <<"a", "b", "a">>),
          Fld("flags", "list", "bool", "", <<TRUE, FALSE>>)>>)

DecodeInputs ==
    {Event(t) : t \in Timestamps}
        \cup {Masked(FieldMask(ps)) : ps \in MaskPaths}
        \cup {Masked(DynamicFieldMask(ps)) : ps \in MaskPaths}
        \cup {Sparse}
        \cup {Log(<<t>>) : t \in Timestamps}
        \cup {Log(<<Timestamp(BigZero, 1), t>>) : t \in Timestamps}
        \cup {Job(Duration(s, n)) : s \in DurationSeconds, n \in DurationNanos}
        \cup Records

InitDecode ==
    /\ decodeArg \in DecodeInputs
    /\ decodeRes = NotDecoded
    /\ decodeValue = decodeArg
    /\ pc = "decode"
    /\ subcommand = ""
    /\ config = Config(FALSE, <<>>, <<>>, FALSE)
    /\ files = <<>>
    /\ compiled = [p \in {} |-> <<>>]
    /\ fileIndex = 0
    /\ results = <<>>
    /\ result = NoResult
    /\ agenda = <<>>
    /\ exitCode = -1
    /\ output = NoOutput
    /\ run = 1
    /\ ResolverNotStarted(NoResolverConfig)

\* parser.go:193-195: encodeMessage writes the converted paths into the
\* FieldMask it was given
messageAfterEncode(typeName, value) ==
    IF typeName = fieldMaskFullName /\ "dynamic" \notin DOMAIN value
    THEN [value EXCEPT !.fields =
            [k \in 1..Len(value.fields) |->
                IF value.fields[k].name = "paths"
                THEN [value.fields[k] EXCEPT !.val =
                        [j \in 1..Len(value.fields[k].val) |->
                            convertSnakeCaseToCamelCase(value.fields[k].val[j])]]
                ELSE value.fields[k]]]
    ELSE value

\* the values of a repeated or map field after they were encoded
itemsAfterEncode(fd) ==
    IF fd.kind \notin {"message", "group"} THEN fd.val
    ELSE IF fd.card = "map"
    THEN [j \in 1..Len(fd.val) |->
            [fd.val[j] EXCEPT !.v = messageAfterEncode(fd.typeName, fd.val[j].v)]]
    ELSE [j \in 1..Len(fd.val) |-> messageAfterEncode(fd.typeName, fd.val[j])]

\* the message m after encodeByField has gone through its fields from the
\* i-th on (parser.go:54-123): the fields after a failing one are not read
RECURSIVE messageAfterFrom(_, _)
messageAfterField(m, i, fd, failed, val) ==
    IF failed THEN [m EXCEPT !.fields[i].val = val]
    ELSE messageAfterFrom([m EXCEPT !.fields[i].val = val], i + 1)

messageAfterFrom(m, i) ==
    IF i > Len(m.fields) THEN m
    ELSE IF m.fields[i].card = "list"
    THEN messageAfterField(m, i, m.fields[i],
            encodeRepeatedField(m.fields[i], m.fields[i].val).err # "",
            itemsAfterEncode(m.fields[i]))
    ELSE IF m.fields[i].card = "map"
    THEN messageAfterField(m, i, m.fields[i], FALSE, itemsAfterEncode(m.fields[i]))
    ELSE IF m.fields[i].kind \in {"message", "group"}
    THEN IF encodeMessage(m.fields[i].typeName, m.fields[i].val).err = ""
         THEN messageAfterField(m, i, m.fields[i], FALSE,
                messageAfterEncode(m.fields[i].typeName, m.fields[i].val))
         ELSE messageAfterField(m, i, m.fields[i],
                encodeByFieldFrom(EmptyValues, "", m.fields[i].val, 1).err # "",
                messageAfterFrom(m.fields[i].val, 1))
    ELSE messageAfterField(m, i, m.fields[i],
            parseProtoMessageFieldValue(m.fields[i].kind, m.fields[i].typeName,
                                        m.fields[i].val).err # "",
            m.fields[i].val)

\* parser.go:17-26: a call of ParseProtoMessageValues on the message, the
\* first or a later one
Decode ==
    /\ pc \in {"decode", "decoded"}
    /\ decodeRes' = ParseProtoMessageValues(decodeValue)
    /\ decodeValue' = messageAfterFrom(decodeValue, 1)
    /\ pc' = IF pc = "decode" THEN "decoded" ELSE "decoded again"
    /\ UNCHANGED <<resolverVars, decodeArg, subcommand, config, files, compiled,
                   fileIndex, results, result, agenda, exitCode, output, run>>

NextDecode == Decode

SpecDecode == InitDecode /\ [][NextDecode]_vars

(***************************************************************************)
(* internal/checker: source_resolver.go                                    *)
(*                                                                         *)
(* The compiler resolves the imports of a file in goroutines of its own;   *)
(* each calls the Accessor of getSourceResolver with an import path.  The  *)
(* calls share the cache of the ProtoChecker and its mutex.  A call is a   *)
(* sequence of steps: the blocking operations (os.Open, the HTTP round     *)
(* trip, Lock) and the accesses to the map are steps of their own.         *)
(***************************************************************************)
githubLinkPartsCount == 4
googlePrefix == "google/"
googleProtobufPrefix == "google/protobuf"
protocGenOpenAPIV2Prefix == "protoc-gen-openapiv2/"
googleAPIsGitHubPath == "github.com/googleapis/googleapis"
grpcGatewayGitHubPath == "github.com/grpc-ecosystem/grpc-gateway"
githubDomain == "github.com"
githubDomainPrefix == githubDomain \o "/"
githubDownloadLinkPrefix == "https://raw.githubusercontent.com/"

\* http.StatusOK
StatusOK == 200

\* position (1-based) of the first occurrence of sub in s from i on, 0 if none
RECURSIVE IndexOfSub(_, _, _)
IndexOfSub(s, sub, i) ==
    IF i + Len(sub) - 1 > Len(s) THEN 0
    ELSE IF SubSeq(s, i, i + Len(sub) - 1) = sub THEN i
    ELSE IndexOfSub(s, sub, i + 1)

\* strings.Replace(s, old, new, 1)
ReplaceOnce(s, old, new) ==
    LET i == IndexOfSub(s, old, 1)
    IN  IF i = 0 THEN s
        ELSE SubSeq(s, 1, i - 1) \o new \o SubSeq(s, i + Len(old), Len(s))

\* strings.SplitN(s, sep, n) for n > 0
RECURSIVE SplitN(_, _, _)
SplitN(s, sep, n) ==
    LET i == IndexOfSub(s, sep, 1)
    IN  IF n = 1 \/ i = 0 THEN <<s>>
        ELSE <<SubSeq(s, 1, i - 1)>>
                 \o SplitN(SubSeq(s, i + Len(sep), Len(s)), sep, n - 1)

\* url.JoinPath(base, elem) on paths without dot segments
JoinPath(base, elem) == TrimSuffix(base, "/") \o "/" \o TrimPrefix(elem, "/")

\* filepath.Join(dir, name) on paths without dot segments
FilepathJoin(dir, name) ==
    IF dir = "" THEN name
    ELSE IF name = "" THEN dir
    ELSE TrimSuffix(dir, "/") \o "/" \o TrimPrefix(name, "/")

\* url.Parse as far as the resolver reads it: the scheme of rawURL, or the
\* error of a URL that starts with a colon
RECURSIVE getScheme(_, _)
getScheme(rawURL, i) ==
    IF i >= Len(rawURL) THEN [scheme |-> "", err |-> ""]
    ELSE LET c == CharAt(rawURL, i)
         IN  IF IsUpperChar(c) \/ IsLowerChar(c) THEN getScheme(rawURL, i + 1)
             ELSE IF IsDigitChar(c) \/ c \in {"+", "-", "."}
             THEN IF i = 0 THEN [scheme |-> "", err |-> ""]
                  ELSE getScheme(rawURL, i + 1)
             ELSE IF c = ":"
             THEN IF i = 0 THEN [scheme |-> "", err |-> "missing protocol scheme"]
                  ELSE [scheme |-> SubSeq(rawURL, 1, i), err |-> ""]
             ELSE [scheme |-> "", err |-> ""]

urlParse(rawURL) == getScheme(rawURL, 0)

\* ---- the world outside the program ----
\* the files on the disk, by name
Disk ==
    [f \in {"api/user.proto", "api/cart.proto", "/mirror/acme/types/money.proto"}
        |-> "// file " \o f]

\* names os.Stat fails on with another error than "does not exist"
Unreadable == {"secret/key.proto"}

ErrNotExist == "no such file or directory"

\* os.Stat(name): the error, "" for nil
Stat(name) ==
    IF name \in Unreadable THEN "stat " \o name \o ": permission denied"
    ELSE IF name \in DOMAIN Disk THEN ""
    ELSE "stat " \o name \o ": " \o ErrNotExist

\* os.Open(name) read to its end
Open(name) ==
    IF name \in DOMAIN Disk THEN [content |-> Disk[name], err |-> ""]
    ELSE [content |-> "", err |-> "open " \o name \o ": " \o ErrNotExist]

\* the import paths the compiler asks for
ImportPaths ==
    {"api/user.proto",
     "secret/key.proto",
     "google/protobuf/any.proto",
     "google/api/annotations.proto",
     "github.com/acme/types/money.proto",
     "acme.dev/shop/api/cart.proto",
     "thirdparty/lib.proto"}

\* module name of go.mod and github_url of the configuration
ResolverConfigs ==
    {[moduleName |-> "", githubURL |-> ""],
     [moduleName |-> "acme.dev/shop", githubURL |-> "/mirror"],
     [moduleName |-> "", githubURL |-> "file:///mirror"],
     [moduleName |-> "", githubURL |-> ":mirror"],
     [moduleName |-> "", githubURL |-> "https://git.acme.dev"]}

ArtifactoryBody == "{\"errors\":[{\"status\":404,\"message\":\"File not found.\"}]}"

\* json.Unmarshal(body, &response): response.Errors
ArtifactoryErrors(body) ==
    IF body = ArtifactoryBody
    THEN <<[Status |-> 404, Message |-> "File not found."]>>
    ELSE <<>>

Response(status, body) ==
    [err |-> "", status |-> status, body |-> body, readErr |-> ""]

\* what http.DefaultClient.Do and the read of the body may come to for a
\* resource: no connection, a body that breaks off, or a status with a
\* body.  The company's repository answers as an Artifactory does.
RoundTrips(resource) ==
    IF urlParse(resource).scheme \notin {"http", "https"}
    THEN {[NoResponse EXCEPT !.err =
              "Get \"" \o resource \o "\": unsupported protocol scheme \""
                  \o urlParse(resource).scheme \o "\""]}
    ELSE IF HasPrefix(resource, githubDownloadLinkPrefix)
    THEN {[NoResponse EXCEPT !.err =
              "Get \"" \o resource \o "\": dial tcp: connection refused"],
          Response(StatusOK, "// v1 of " \o resource),
          Response(StatusOK, "// v2 of " \o resource),
          Response(StatusOK, ""),
          Response(404, "404: Not Found")}
    ELSE {[Response(StatusOK, "") EXCEPT !.readErr = "unexpected EOF"],
          Response(StatusOK, "// v1 of " \o resource),
          Response(404, ""),
          Response(404, ArtifactoryBody)}

\* ---- source_resolver.go ----
\* getSourceResolver: the module name as a prefix of imports
moduleNamePrefix(cfg) ==
    IF cfg.moduleName # "" THEN cfg.moduleName \o "/" ELSE ""

\* getProtoDependencyPath
getProtoDependencyPath(githubURL, importPath) ==
    IF githubURL # "" /\ HasPrefix(importPath, githubDomainPrefix)
    THEN LET parsedURL == urlParse(githubURL)
         IN  IF parsedURL.err # ""
             THEN [resource |-> ReplaceOnce(importPath, githubDomain, githubURL),
                   isLocalFile |-> TRUE]
             ELSE IF ~(Len(parsedURL.scheme) > 1)
             THEN [resource |-> FilepathJoin(githubURL,
                                    ReplaceOnce(importPath, githubDomain, "")),
                   isLocalFile |-> TRUE]
             ELSE IF parsedURL.scheme = "file"
             THEN [resource |-> ReplaceOnce(importPath, githubDomain,
                                    TrimPrefix(githubURL, "file://")),
                   isLocalFile |-> TRUE]
             ELSE [resource |-> ReplaceOnce(importPath, githubDomain, githubURL),
                   isLocalFile |-> FALSE]
    ELSE IF ~HasPrefix(importPath, githubDomainPrefix)
    THEN [resource |-> importPath, isLocalFile |-> FALSE]
    ELSE LET parts == SplitN(importPath, "/", githubLinkPartsCount)
         IN  IF Len(parts) < githubLinkPartsCount
             THEN [resource |-> importPath, isLocalFile |-> FALSE]
             ELSE [resource |-> githubDownloadLinkPrefix \o parts[2] \o "/"
                                    \o parts[3] \o "/master/" \o parts[4],
                   isLocalFile |-> FALSE]

\* extractArtifactoryErrors
RECURSIVE errorList(_, _)
errorList(errs, i) ==
    IF i > Len(errs) THEN <<>>
    ELSE <<"error code: " \o ToString(errs[i].Status) \o ", message: "
               \o errs[i].Message>> \o errorList(errs, i + 1)

extractArtifactoryErrors(body) ==
    LET errs == ArtifactoryErrors(body)
    IN  IF Len(errs) = 0 THEN "" ELSE JoinStrings(errorList(errs, 1), "\n")

\* a variant of processDownloadedProtoDependency that keeps whatever body
\* the server sent
processDownloadedWhateverTheStatus(response, path, resource) ==
    IF response.readErr # ""
    THEN [store |-> FALSE, content |-> "", err |-> response.readErr]
    ELSE [store |-> TRUE, content |-> response.body, err |-> ""]

\* processDownloadedProtoDependency up to the call of storeCachedContent:
\* the body to store and return, or the error
processDownloadedProtoDependency(response, path, resource) ==
    IF response.readErr # ""
    THEN [store |-> FALSE, content |-> "", err |-> response.readErr]
    ELSE IF response.status # StatusOK
    THEN LET found == extractArtifactoryErrors(response.body)
             errors == IF found = "" THEN response.body ELSE found
             text == "failed to download file from " \o resource
                        \o " for proto dependency " \o path
                        \o ", status code: " \o ToString(response.status)
         IN  [store |-> FALSE, content |-> "",
              err |-> IF errors # "" THEN text \o ", errors: " \o errors ELSE text]
    ELSE IF Len(response.body) = 0
    THEN [store |-> FALSE, content |-> "",
          err |-> "file downloaded from " \o resource \o " for proto dependency "
                     \o path \o " is empty"]
    ELSE [store |-> TRUE, content |-> response.body, err |-> ""]

\* c.cache[path] = content
mapStore(c, path, content) ==
    [p \in DOMAIN c \cup {path} |-> IF p = path THEN content ELSE c[p]]

\* what a return statement of the Accessor leaves of the call
Returned(call, from, content, err) ==
    [call EXCEPT !.at = "returned", !.from = from, !.content = content, !.err = err]

\* the Accessor from its switch on (lines 60-83 and downloadProtoDependency
\* up to the request): where the call goes after a miss in the cache
afterCacheMiss(cfg, call) ==
    IF moduleNamePrefix(cfg) # "" /\ HasPrefix(call.path, moduleNamePrefix(cfg))
    THEN [call EXCEPT !.at = "open",
                      !.file = TrimPrefix(call.path, moduleNamePrefix(cfg))]
    ELSE LET newPath ==
                 IF HasPrefix(call.path, googlePrefix)
                 THEN JoinPath(googleAPIsGitHubPath, call.path)
                 ELSE IF HasPrefix(call.path, protocGenOpenAPIV2Prefix)
                 THEN JoinPath(grpcGatewayGitHubPath, call.path)
                 ELSE call.path
             dep == getProtoDependencyPath(cfg.githubURL, newPath)
         IN  IF dep.isLocalFile
             THEN [call EXCEPT !.at = "open", !.file = dep.resource,
                               !.resource = dep.resource]
             ELSE [call EXCEPT !.at = "download", !.resource = dep.resource]

\* the Accessor is called with an import path: os.Stat, and the choice
\* between the disk and the cache (lines 43-56)
Accessor(g, path) ==
    /\ accessor[g].at = "idle"
    /\ LET err == Stat(path)
           call == [accessor[g] EXCEPT !.path = path]
       IN  accessor' = [accessor EXCEPT ![g] =
              IF err # "" /\ ~HasSuffix(err, ErrNotExist)
              THEN Returned(call, "", "", err)
              ELSE IF err = "" \/ HasPrefix(path, googleProtobufPrefix)
              THEN [call EXCEPT !.at = "open", !.file = path]
              ELSE [call EXCEPT !.at = "lock"]]
    /\ UNCHANGED <<cache, cacheMutex, resolverConfig, checkerVars, decoderVars>>

\* os.Open(file) returns (lines 52, 67 and 149)
osOpen(g) ==
    /\ accessor[g].at = "open"
    /\ LET f == Open(accessor[g].file)
       IN  accessor' = [accessor EXCEPT ![g] =
              Returned(@, IF f.err = "" THEN "disk" ELSE "", f.content, f.err)]
    /\ UNCHANGED <<cache, cacheMutex, resolverConfig, checkerVars, decoderVars>>

\* a variant of getCachedContentLock that goes on without the mutex
getCachedContentWithoutLock(g) ==
    /\ accessor[g].at = "lock"
    /\ accessor' = [accessor EXCEPT ![g].at = "read"]
    /\ UNCHANGED <<cache, cacheMutex, resolverConfig, checkerVars, decoderVars>>

\* getCachedContent: c.cacheMutex.Lock()
getCachedContentLock(g) ==
    /\ accessor[g].at = "lock"
    /\ cacheMutex = {}
    /\ cacheMutex' = {g}
    /\ accessor' = [accessor EXCEPT ![g].at = "read"]
    /\ UNCHANGED <<cache, resolverConfig, checkerVars, decoderVars>>

\* getCachedContent: content, ok := c.cache[path]
getCachedContentRead(g) ==
    /\ accessor[g].at = "read"
    /\ LET ok == accessor[g].path \in DOMAIN cache
       IN  accessor' = [accessor EXCEPT ![g] =
              [@ EXCEPT !.at = "unlock", !.consulted = TRUE, !.ok = ok,
                        !.cachedContent = IF ok THEN cache[accessor[g].path] ELSE ""]]
    /\ UNCHANGED <<cache, cacheMutex, resolverConfig, checkerVars, decoderVars>>

\* getCachedContent returns: the deferred Unlock
getCachedContentUnlock(g) ==
    /\ accessor[g].at = "unlock"
    /\ cacheMutex' = cacheMutex \ {g}
    /\ accessor' = [accessor EXCEPT ![g].at = "looked up"]
    /\ UNCHANGED <<cache, resolverConfig, checkerVars, decoderVars>>

\* the Accessor after getCachedContent (lines 56-83): it serves the cached
\* content or goes on to the dependency's resource
AccessorAfterLookup(g) ==
    /\ accessor[g].at = "looked up"
    /\ accessor' = [accessor EXCEPT ![g] =
          IF @.ok THEN Returned(@, "cache", @.cachedContent, "")
          ELSE afterCacheMiss(resolverConfig, @)]
    /\ UNCHANGED <<cache, cacheMutex, resolverConfig, checkerVars, decoderVars>>

\* downloadProtoDependency: the request, the response and what
\* processDownloadedProtoDependency makes of it
downloadProtoDependency(g) ==
    /\ accessor[g].at = "download"
    /\ \E response \in RoundTrips(accessor[g].resource) :
          LET call == [accessor[g] EXCEPT !.requested = TRUE, !.response = response]
              done == processDownloadedProtoDependency(
                          response, call.path, call.resource)
          IN  accessor' = [accessor EXCEPT ![g] =
                 IF response.err # ""
                 THEN Returned(call, "",  "",
                          IF Contains(response.err, "unsupported protocol scheme")
                          THEN "'" \o call.resource
                                   \o "' is not valid link or local file doesn't exist"
                          ELSE response.err)
                 ELSE IF done.store
                 THEN [call EXCEPT !.at = "store lock", !.content = done.content]
                 ELSE Returned(call, "", "", done.err)]
    /\ UNCHANGED <<cache, cacheMutex, resolverConfig, checkerVars, decoderVars>>

\* storeCachedContent: c.cacheMutex.Lock()
storeCachedContentLock(g) ==
    /\ accessor[g].at = "store lock"
    /\ cacheMutex = {}
    /\ cacheMutex' = {g}
    /\ accessor' = [accessor EXCEPT ![g].at = "write"]
    /\ UNCHANGED <<cache, resolverConfig, checkerVars, decoderVars>>

\* storeCachedContent: c.cache[path] = content
storeCachedContentWrite(g) ==
    /\ accessor[g].at = "write"
    /\ cache' = mapStore(cache, accessor[g].path, accessor[g].content)
    /\ accessor' = [accessor EXCEPT ![g].at = "store unlock"]
    /\ UNCHANGED <<cacheMutex, resolverConfig, checkerVars, decoderVars>>

\* storeCachedContent returns: the deferred Unlock, then
\* processDownloadedProtoDependency returns the body
storeCachedContentUnlock(g) ==
    /\ accessor[g].at = "store unlock"
    /\ cacheMutex' = cacheMutex \ {g}
    /\ accessor' = [accessor EXCEPT ![g] = Returned(@, "network", @.content, "")]
    /\ UNCHANGED <<cache, resolverConfig, checkerVars, decoderVars>>

InitResolver ==
    /\ \E cfg \in ResolverConfigs : ResolverNotStarted(cfg)
    /\ decodeArg = Msg("", <<>>)
    /\ decodeRes = NotDecoded
    /\ decodeValue = decodeArg
    /\ pc = "resolve"
    /\ subcommand = "check"
    /\ config = Config(FALSE, <<>>, <<>>, FALSE)
    /\ files = <<>>
    /\ compiled = [p \in {} |-> <<>>]
    /\ fileIndex = 0
    /\ results = <<>>
    /\ result = NoResult
    /\ agenda = <<>>
    /\ exitCode = -1
    /\ output = NoOutput
    /\ run = 1

\* a step of goroutine g inside the Accessor
AccessorStep(g) ==
    \/ osOpen(g)
    \/ getCachedContentLock(g)
    \/ getCachedContentRead(g)
    \/ getCachedContentUnlock(g)
    \/ AccessorAfterLookup(g)
    \/ downloadProtoDependency(g)
    \/ storeCachedContentLock(g)
    \/ storeCachedContentWrite(g)
    \/ storeCachedContentUnlock(g)

NextResolver ==
    \E g \in Goroutines :
        \/ \E path \in ImportPaths : Accessor(g, path)
        \/ AccessorStep(g)

SpecResolver == InitResolver /\ [][NextResolver]_vars

\* the steps of goroutine g in getCachedContent and storeCachedContent
MutexStep(g) ==
    \/ getCachedContentLock(g)
    \/ getCachedContentRead(g)
    \/ getCachedContentUnlock(g)
    \/ storeCachedContentLock(g)
    \/ storeCachedContentWrite(g)
    \/ storeCachedContentUnlock(g)

\* The scheduler runs every goroutine that can run.  Nothing is assumed of
\* the disk or of the network: a request may never come back.
SpecResolverFair ==
    SpecResolver /\ \A g \in Goroutines : WF_vars(MutexStep(g))

(***************************************************************************)
(* Properties: what they read of a run                                     *)
(***************************************************************************)
\* the results of the files checked so far and of the file being walked
AllResults == IF pc = "walk" THEN Append(results, result) ELSE results

HasErrorFinding(rs) == \E i \in 1..Len(rs) : Len(rs[i].Errors) > 0

\* the elements directly below an element of a compiled file
Children(el) ==
    CASE el.kind = "file" -> el.services \o el.messages \o el.enums
      [] el.kind = "service" -> el.methods
      [] el.kind = "message" -> el.fields \o el.messages \o el.enums
      [] el.kind = "enum" -> el.values
      [] OTHER -> <<>>

\* the elements below an element, at any depth
RECURSIVE Below(_)
RECURSIVE BelowAll(_)
BelowAll(els) ==
    IF Len(els) = 0 THEN <<>>
    ELSE <<Head(els)>> \o Below(Head(els)) \o BelowAll(Tail(els))

Below(el) == BelowAll(Children(el))

\* the full names of a sequence of elements
FullNames(els) == [i \in 1..Len(els) |-> els[i].fullName]

IsListed(list, name) == \E i \in 1..Len(list) : list[i] = name

NoDuplicates(list) ==
    \A i, j \in 1..Len(list) : i # j => list[i] # list[j]

(***************************************************************************)
(* C1: exclusion is subtree-transitive.  When the excluded-descriptor list *)
(* holds the full name of a message, a service or an enum, no result holds *)
(* an error finding for an element below it in the compiled file, at any   *)
(* depth: fields, fields of nested messages, values of nested enums,       *)
(* methods, enum values.                                                   *)
(***************************************************************************)
NoFindingBelow(r, el) ==
    \A k \in 1..Len(Below(el)), e \in 1..Len(r.Errors) :
        r.Errors[e].subject # Below(el)[k].fullName

C1_ExclusionIsSubtreeTransitive ==
    \A i \in 1..Len(AllResults) :
        LET r == AllResults[i]
            els == Below(compiled[r.File])
        IN  \A j \in 1..Len(els) :
                (/\ els[j].kind \in {"message", "service", "enum"}
                 /\ IsListed(GetExcludedDescriptors(config), els[j].fullName))
                    => NoFindingBelow(r, els[j])

\* a check of m.proto under the excluded descriptor p.M has ended: the file
\* has findings, none of them below p.M
C1_Witness ==
    /\ pc = "exited"
    /\ subcommand = "check"
    /\ run = 1
    /\ GetExcludedDescriptors(config) = <<"p.M">>
    /\ \E i \in 1..Len(results) :
          /\ results[i].File = "m.proto"
          /\ Len(results[i].Errors) > 0

(***************************************************************************)
(* C2: when record-all mode is off, after the walk of a file every element *)
(* with at least one error finding, whatever the rule, has its full name   *)
(* in the recorded descriptor list of the file.                            *)
(***************************************************************************)
C2_ViolatingElementsAreRecorded ==
    ~GetPrintAllDescriptors(config) =>
        \A i \in 1..Len(results) :
            \A e \in 1..Len(results[i].Errors) :
                IsListed(results[i].descriptors, results[i].Errors[e].subject)

(***************************************************************************)
(* C3: suppression round trip.  print-config (record-all off) followed by  *)
(* check on the same files under the printed configuration ends with no    *)
(* error finding.                                                          *)
(***************************************************************************)
C3_SuppressionRoundTrip == run = 2 => ~HasErrorFinding(AllResults)

(***************************************************************************)
(* C4: a check run that reaches processResults exits with status 1 when    *)
(* some result holds an error finding and with status 0 otherwise, so      *)
(* informational messages alone never fail it; a run that finds no file    *)
(* exits with status 0.                                                    *)
(***************************************************************************)
C4_ExitStatusOfCompletedRun ==
    [][/\ processResults =>
            exitCode' = (IF HasErrorFinding(results) THEN 1 ELSE 0)
       /\ NoFilesFound => exitCode' = 0]_vars

\* a check run has ended with status 1 on a result that holds messages and
\* error findings
C4_Witness ==
    /\ pc = "exited"
    /\ subcommand = "check"
    /\ fileIndex > Len(files)
    /\ exitCode = 1
    /\ \E i \in 1..Len(results) :
          /\ Len(results[i].Messages) > 0
          /\ Len(results[i].Errors) > 0

\* C4 as it is stated: a check run exits with a failure status if and only
\* if some result holds an error finding
C4_FailureIffErrorFinding ==
    (pc = "exited" /\ subcommand = "check")
        => (exitCode # 0 <=> HasErrorFinding(results))

(***************************************************************************)
(* C5: a decoder failure on an option of an element adds one               *)
(* informational message that names the option, the element and the       *)
(* decode error, and nothing else: the error findings and the recorded     *)
(* names the visit leaves are those of the same element without the        *)
(* failing options, and the walk goes on to the next element.              *)
(***************************************************************************)
\* the options in names that the decoder fails on
DecodeFails(option, names) ==
    option.fullName \in names /\ ParseProtoMessageValues(option.value).err # ""

RECURSIVE Surviving(_, _)
Surviving(options, names) ==
    IF Len(options) = 0 THEN <<>>
    ELSE (IF DecodeFails(Head(options), names) THEN <<>> ELSE <<Head(options)>>)
            \o Surviving(Tail(options), names)

RECURSIVE FailureMessages(_, _, _, _)
FailureMessages(options, names, owner, logName) ==
    IF Len(options) = 0 THEN <<>>
    ELSE (IF DecodeFails(Head(options), names)
          THEN <<"Failed to parse option " \o Head(options).fullName \o " of "
                    \o owner \o " " \o logName \o ": "
                    \o ParseProtoMessageValues(Head(options).value).err>>
          ELSE <<>>)
            \o FailureMessages(Tail(options), names, owner, logName)

\* r is what the visit of the element without its failing options leaves
SameButForMessages(r, after, added) ==
    /\ after.Errors = r.Errors
    /\ after.descriptors = r.descriptors
    /\ after.recordedFor = r.recordedFor
    /\ after.Messages = r.Messages \o added

MethodOptionNames == {httpOptionName, operationOptionName}

MethodVisitedAsWithoutFailingOptions ==
    LET item == Head(agenda)
        method == item.el
        logName == getNameForLogs(item.parsedFileFullName, item.serviceName,
                                  item.servicesCount, method.fullName)
        clean == [method EXCEPT !.options = Surviving(@, MethodOptionNames)]
        r0 == recordVisited(config, result, method.fullName)
    IN  /\ \E r \in checkMethodOptions(config,
                        checkMethodName(config, r0, clean, logName),
                        clean, logName) :
              SameButForMessages(r, result',
                  FailureMessages(method.options, MethodOptionNames,
                                  "method", logName))
        /\ agenda' = Tail(agenda)
        /\ pc' = "walk"

FieldVisitedAsWithoutFailingOptions ==
    LET item == Head(agenda)
        field == item.el
        logName == getNameForLogs(item.parsedFileFullName, "", 0, field.fullName)
        clean == [field EXCEPT !.options = Surviving(@, {fieldOptionName})]
        r0 == recordVisited(config, result, field.fullName)
    IN  /\ SameButForMessages(
              checkFieldOptions(config,
                  checkFieldName(config, r0, clean, logName), clean, logName),
              result',
              FailureMessages(field.options, {fieldOptionName}, "field", logName))
        /\ agenda' = Tail(agenda)
        /\ pc' = "walk"

C5_DecoderFailureIsOneMessage ==
    [][/\ (VisitMethod
             /\ ~shouldDescriptorBeSkipped(config, Head(agenda).el.fullName))
            => MethodVisitedAsWithoutFailingOptions
       /\ (VisitField
             /\ ~shouldDescriptorBeSkipped(config, Head(agenda).el.fullName))
            => FieldVisitedAsWithoutFailingOptions]_vars

\* a method was visited whose google.api.http option the decoder fails on:
\* the result holds the message, and findings of the method's other option
C5_Witness ==
    /\ pc = "walk"
    /\ agenda = <<>>
    /\ \E i \in 1..Len(result.Messages) :
          /\ HasPrefix(result.Messages[i],
                       "Failed to parse option google.api.http of method ")
          /\ Contains(result.Messages[i], "unsupported message type")
    /\ Len(result.Messages) = 1
    /\ Len(result.Errors) > 0

(***************************************************************************)
(* C6: a rule in the excluded checks of the configuration produces no      *)
(* finding: no result holds an error finding of that rule, and no name is  *)
(* recorded because of that rule.                                          *)
(***************************************************************************)
C6_ExcludedRuleProducesNothing ==
    \A i \in 1..Len(AllResults) :
        \A c \in 1..Len(GetExcludedChecks(config)) :
            /\ \A e \in 1..Len(AllResults[i].Errors) :
                  AllResults[i].Errors[e].rule # GetExcludedChecks(config)[c]
            /\ \A d \in 1..Len(AllResults[i].recordedFor) :
                  AllResults[i].recordedFor[d] # GetExcludedChecks(config)[c]

\* m.proto, whose field p.M.N.userId is not in snake case, was checked with
\* field_name_is_snake_case excluded, and other rules left findings
C6_Witness ==
    /\ pc = "exited"
    /\ run = 1
    /\ GetExcludedChecks(config) = <<FieldNameIsSnakeCase>>
    /\ \E i \in 1..Len(results) :
          /\ results[i].File = "m.proto"
          /\ Len(results[i].Errors) > 0

(***************************************************************************)
(* C7: in record-all mode the recorded descriptor list of a file holds,    *)
(* each exactly once and in the order of the walk, the full name of the    *)
(* file and of every element all of whose enclosing elements (the file     *)
(* included) are not excluded; an excluded element is recorded itself, and *)
(* what is below it is neither visited nor recorded.                       *)
(***************************************************************************)
RECURSIVE Reached(_, _)
RECURSIVE ReachedAll(_, _)
ReachedAll(cfg, els) ==
    IF Len(els) = 0 THEN <<>>
    ELSE Reached(cfg, Head(els)) \o ReachedAll(cfg, Tail(els))

Reached(cfg, el) ==
    <<el.fullName>>
        \o (IF shouldDescriptorBeSkipped(cfg, el.fullName) THEN <<>>
            ELSE ReachedAll(cfg, Children(el)))

C7_RecordAllRecordsWhatIsReached ==
    (subcommand = "print-config" /\ GetPrintAllDescriptors(config)) =>
        \A i \in 1..Len(results) :
            /\ results[i].descriptors = Reached(config, compiled[results[i].File])
            /\ NoDuplicates(results[i].descriptors)

\* m.proto was walked in record-all mode with p.M.N excluded: p.M.N is
\* recorded, its field is not, the elements after it are
C7_Witness ==
    /\ pc = "exited"
    /\ subcommand = "print-config"
    /\ GetPrintAllDescriptors(config)
    /\ GetExcludedDescriptors(config) = <<"p.M.N">>
    /\ \E i \in 1..Len(results) :
          /\ results[i].File = "m.proto"
          /\ IsListed(results[i].descriptors, "p.M.N")
          /\ ~IsListed(results[i].descriptors, "p.M.N.userId")
          /\ IsListed(results[i].descriptors, "p.M.V")

\* C7 as it is stated: the list holds every element reachable from the
\* file, each exactly once
C7_RecordAllRecordsEveryElement ==
    (subcommand = "print-config" /\ GetPrintAllDescriptors(config)) =>
        \A i \in 1..Len(results) :
            LET all == <<compiled[results[i].File].fullName>>
                          \o FullNames(Below(compiled[results[i].File]))
            IN  /\ \A k \in 1..Len(all) : IsListed(results[i].descriptors, all[k])
                /\ NoDuplicates(results[i].descriptors)

(***************************************************************************)
(* Properties of the decoder: what they read of a message                  *)
(***************************************************************************)
SecondsOutOfRange(t) ==
    \/ BigLess(MsgGet(t, "seconds", BigZero), minTimestampSeconds)
    \/ BigLess(maxTimestampSeconds, MsgGet(t, "seconds", BigZero))

NanosOutOfRange(t) ==
    MsgGet(t, "nanos", 0) < 0 \/ MsgGet(t, "nanos", 0) > secondsInNanos

TimestampOutOfRange(t) == SecondsOutOfRange(t) \/ NanosOutOfRange(t)

\* the error names the component out of range and its value
IsRangeError(err, t) ==
    IF SecondsOutOfRange(t)
    THEN /\ Contains(err, "seconds out of range")
         /\ HasSuffix(err, " " \o FormatBig(MsgGet(t, "seconds", BigZero)))
    ELSE /\ Contains(err, "nanos out of range")
         /\ HasSuffix(err, " " \o ToString(MsgGet(t, "nanos", 0)))

(***************************************************************************)
(* C8: timestamp boundary at the decoder.  Decoding a record that carries  *)
(* timestamps within the range (seconds up to 253402300799, nanos within   *)
(* 0..999999999) succeeds and gives the field an entry; with a timestamp   *)
(* out of range (seconds 253402300800, seconds below the minimum, nanos    *)
(* outside the range) it fails with a range error naming the component and *)
(* the value, and no entry is produced for the field.                      *)
(***************************************************************************)
C8_TimestampBoundary ==
    (pc = "decoded" /\ decodeArg.type \in {"t.Event", "t.Log"}) =>
        LET fd == decodeArg.fields[2]
            ts == IF fd.card = "single" THEN <<fd.val>> ELSE fd.val
            bad == {j \in 1..Len(ts) : TimestampOutOfRange(ts[j])}
            first == CHOOSE j \in bad : \A k \in bad : j <= k
        IN  IF bad = {}
            THEN decodeRes.err = "" /\ ValuesHas(decodeRes.u, "at")
            ELSE /\ decodeRes.err # ""
                 /\ IsRangeError(decodeRes.err, ts[first])
                 /\ \A key \in DOMAIN decodeRes.u : ~HasPrefix(key, "at")

(***************************************************************************)
(* C9: decode returns an error only when a repeated field, of the record   *)
(* or of a record reached through singular record fields, holds a          *)
(* timestamp out of its range or a record of a type outside the well-known *)
(* list; for every other input it succeeds and returns a map.              *)
(***************************************************************************)
encodedTypes ==
    {timestampMessageFullname, durationMessageFullname, bytesMessageFullname,
     fieldMaskFullName, responseFieldFullName, responseEntryFullName}
        \cup wrapperTypes

RECURSIVE HasFailingRepeatedElement(_)
HasFailingRepeatedElement(m) ==
    \E i \in 1..Len(m.fields) :
        LET fd == m.fields[i]
        IN  /\ fd.kind \in {"message", "group"}
            /\ \/ /\ fd.card = "list"
                  /\ \/ fd.typeName \notin encodedTypes /\ Len(fd.val) > 0
                     \/ /\ fd.typeName = timestampMessageFullname
                        /\ \E j \in 1..Len(fd.val) : TimestampOutOfRange(fd.val[j])
               \/ fd.card = "single" /\ HasFailingRepeatedElement(fd.val)

RECURSIVE EmbedsTemporalOutOfRange(_)
TemporalOutOfRange(typeName, v) ==
    IF typeName = timestampMessageFullname THEN TimestampOutOfRange(v)
    ELSE IF typeName = durationMessageFullname THEN TRUE
    ELSE EmbedsTemporalOutOfRange(v)

EmbedsTemporalOutOfRange(m) ==
    \E i \in 1..Len(m.fields) :
        LET fd == m.fields[i]
        IN  /\ fd.kind \in {"message", "group"}
            /\ CASE fd.card = "single" -> TemporalOutOfRange(fd.typeName, fd.val)
                 [] fd.card = "list" ->
                        \E j \in 1..Len(fd.val) :
                            TemporalOutOfRange(fd.typeName, fd.val[j])
                 [] OTHER ->
                        \E j \in 1..Len(fd.val) :
                            TemporalOutOfRange(fd.typeName, fd.val[j].v)

C10_DurationClamping ==
    (pc = "decoded" /\ decodeArg.type = "t.Job") =>
        LET d == decodeArg.fields[1].val
            secs == BigToInt(MsgGet(d, "seconds", BigZero))
            nanos == MsgGet(d, "nanos", 0)
            exact == secs * Second + nanos
            rendered == ValuesGet(decodeRes.u, "ttl")
        IN  /\ decodeRes.err = ""
            /\ exact > MaxInt64 =>
                    rendered = DurationString(IF secs > 0 THEN MaxInt64 ELSE MinInt64)
            /\ exact < MinInt64 =>
                    rendered = DurationString(IF secs > 0 THEN MaxInt64 ELSE MinInt64)
            /\ (secs > 0 /\ exact >= 0) => ~HasPrefix(rendered, "-")
            /\ (secs < 0 /\ exact <= 0) => (HasPrefix(rendered, "-") \/ rendered = "0ns")
            /\ (MinInt64 <= exact /\ exact <= MaxInt64)
                    => rendered = DurationString(exact)

(***************************************************************************)
(* C11: field-path list encoding.  Each path is converted by dropping      *)
(* every underscore and upper-casing exactly the ASCII lowercase letters   *)
(* that immediately follow an underscore; the converted paths are joined   *)
(* with commas in their order; <<"foo_bar", "baz">> gives "fooBar,baz";    *)
(* the output holds no underscore; converting a converted path changes     *)
(* nothing.                                                                *)
(***************************************************************************)
\* the conversion as it is stated, character by character: the character at
\* (1-based) position i is dropped when it is an underscore, upper-cased
\* when it is a lowercase letter that follows an underscore, kept otherwise
RECURSIVE CamelFrom(_, _)
CamelFrom(s, i) ==
    IF i > Len(s) THEN ""
    ELSE LET c == SubSeq(s, i, i)
             follows == i > 1 /\ SubSeq(s, i - 1, i - 1) = "_"
         IN  (IF c = "_" THEN ""
              ELSE IF follows /\ IsLowerChar(c)
              THEN SubSeq(UpperLetters, IndexOf(LowerLetters, c),
                          IndexOf(LowerLetters, c))
              ELSE c) \o CamelFrom(s, i + 1)

CamelPaths(paths) == [i \in 1..Len(paths) |-> CamelFrom(paths[i], 1)]

MaskEncodedAsStated(mask, rendered) ==
    LET paths == MsgGet(mask, "paths", <<>>)
    IN  /\ rendered = JoinStrings(CamelPaths(paths), ",")
        /\ ~Contains(rendered, "_")
        /\ paths = <<"foo_bar", "baz">> => rendered = "fooBar,baz"
        /\ \A i \in 1..Len(paths) :
              convertSnakeCaseToCamelCase(CamelPaths(paths)[i]) = CamelPaths(paths)[i]

C11_FieldMaskEncoding ==
    (pc = "decoded" /\ decodeArg.type = "t.Masked") =>
        /\ decodeRes.err = ""
        /\ ValuesHas(decodeRes.u, "mask")
        /\ MaskEncodedAsStated(decodeArg.fields[1].val,
                               ValuesGet(decodeRes.u, "mask"))

(***************************************************************************)
(* C12: in a successfully decoded value each set singular scalar field has *)
(* exactly one value under its own path, every key belongs to a set field  *)
(* (an unset field has no key), an empty repeated field or empty map adds  *)
(* no key, and a non-empty repeated scalar field has one value per element *)
(* under one key, in the order of the elements.                            *)
(***************************************************************************)
\* the key is the path of the field or lies below it
KeyBelongsTo(key, path) ==
    \/ key = path
    \/ HasPrefix(key, path \o ".")
    \/ HasPrefix(key, path \o "[")

IsScalarField(fd) == fd.kind \notin {"message", "group"}

\* a list or a map with no element is not populated
IsPopulated(fd) == fd.card = "single" \/ Len(fd.val) > 0

ElementValues(fd) ==
    [j \in 1..Len(fd.val) |->
        parseProtoMessageFieldValue(fd.kind, fd.typeName, fd.val[j]).val]

FieldDecodedAsStated(fd, u) ==
    /\ (fd.card = "single" /\ IsScalarField(fd)) =>
            /\ ValuesHas(u, fd.name)
            /\ Len(u[fd.name]) = 1
    /\ (fd.card \in {"list", "map"} /\ Len(fd.val) = 0) =>
            \A key \in DOMAIN u : ~KeyBelongsTo(key, fd.name)
    /\ (fd.card = "list" /\ IsScalarField(fd) /\ Len(fd.val) > 0) =>
            /\ ValuesHas(u, fd.name)
            /\ u[fd.name] = ElementValues(fd)

C12_SetFieldsAppearOnce ==
    (pc = "decoded" /\ decodeRes.err = "") =>
        /\ \A i \in 1..Len(decodeArg.fields) :
              FieldDecodedAsStated(decodeArg.fields[i], decodeRes.u)
        /\ \A key \in DOMAIN decodeRes.u :
              /\ Len(decodeRes.u[key]) > 0
              /\ \E i \in 1..Len(decodeArg.fields) :
                    /\ KeyBelongsTo(key, decodeArg.fields[i].name)
                    /\ IsPopulated(decodeArg.fields[i])

\* the record with an empty repeated field, an empty map and two repeated
\* scalars was decoded: the keys are those of the set fields
C12_Witness ==
    /\ pc = "decoded"
    /\ decodeArg.type = "t.Sparse"
    /\ decodeRes.err = ""
    /\ DOMAIN decodeRes.u = {"name", "tags", "flags"}
    /\ decodeRes.u["name"] = <<"x">>
    /\ decodeRes.u["tags"] = <<"a", "b", "a">>
    /\ decodeRes.u["flags"] = <<"true", "false">>

(***************************************************************************)
(* Properties of the rules: what they read of a checked file               *)
(***************************************************************************)
\* the elements of a compiled file that the walk checks: an element whose
\* name is skipped is left out with everything below it
RECURSIVE Checked(_, _)
RECURSIVE CheckedAll(_, _)
CheckedAll(cfg, els) ==
    IF Len(els) = 0 THEN <<>>
    ELSE Checked(cfg, Head(els)) \o CheckedAll(cfg, Tail(els))

Checked(cfg, el) ==
    IF shouldDescriptorBeSkipped(cfg, el.fullName) THEN <<>>
    ELSE <<el>> \o CheckedAll(cfg, Children(el))

\* the checked elements of one kind in the file of a result
CheckedOfKind(r, kind) ==
    LET els == Checked(config, compiled[r.File])
    IN  {els[i] : i \in {j \in 1..Len(els) : els[j].kind = kind}}

\* the error findings of a rule about an element
FindingsOf(r, rule, el) ==
    {e \in 1..Len(r.Errors) :
        r.Errors[e].rule = rule /\ r.Errors[e].subject = el.fullName}

Fires(r, rule, el) == FindingsOf(r, rule, el) # {}

\* the options of an element that carry a given extension
OptionsNamed(el, name) ==
    {k \in 1..Len(el.options) : el.options[k].fullName = name}

(***************************************************************************)
(* C13: a checked method named GetUserV1 never gets a finding of the rule  *)
(* method_has_version.  The input name the rule                            *)
(* method_has_correct_input_name expects is the whole method name followed *)
(* by Request, GetUserV1Request: with that input there is no finding of    *)
(* either rule; with the input GetUserRequest or GetUserReq there is       *)
(* exactly one finding of the input-name rule, whose message ends with     *)
(* "should be named as GetUserV1Request".                                  *)
(***************************************************************************)
C13_VersionedMethodExpectsVersionedRequest ==
    (/\ ~IsCheckExcluded(config, MethodHasVersion)
     /\ ~IsCheckExcluded(config, MethodHasCorrectInputName))
    => \A i \in 1..Len(results) :
          \A m \in CheckedOfKind(results[i], "method") :
              m.name = "GetUserV1" =>
                  /\ ~Fires(results[i], MethodHasVersion, m)
                  /\ m.inputName = "GetUserV1Request" =>
                        ~Fires(results[i], MethodHasCorrectInputName, m)
                  /\ m.inputName \in {"GetUserRequest", "GetUserReq"} =>
                        /\ Cardinality(FindingsOf(results[i],
                               MethodHasCorrectInputName, m)) = 1
                        /\ \A e \in FindingsOf(results[i],
                                       MethodHasCorrectInputName, m) :
                              HasSuffix(results[i].Errors[e].text,
                                  "should be named as GetUserV1Request")

\* a file whose method GetUserV1 takes GetUserRequest has been checked with
\* both rules on: the input-name rule has reported
C13_Witness ==
    /\ ~IsCheckExcluded(config, MethodHasVersion)
    /\ ~IsCheckExcluded(config, MethodHasCorrectInputName)
    /\ \E i \in 1..Len(results) :
          \E m \in CheckedOfKind(results[i], "method") :
              /\ m.name = "GetUserV1"
              /\ m.inputName = "GetUserRequest"
              /\ Fires(results[i], MethodHasCorrectInputName, m)

\* C13 as stated: GetUserV1 with the input GetUserRequest has no finding of
\* either rule, and with the input GetUserReq the message of the input-name
\* rule names GetUserRequest
C13_AsStated ==
    (/\ ~IsCheckExcluded(config, MethodHasVersion)
     /\ ~IsCheckExcluded(config, MethodHasCorrectInputName))
    => \A i \in 1..Len(results) :
          \A m \in CheckedOfKind(results[i], "method") :
              m.name = "GetUserV1" =>
                  /\ ~Fires(results[i], MethodHasVersion, m)
                  /\ m.inputName = "GetUserRequest" =>
                        ~Fires(results[i], MethodHasCorrectInputName, m)
                  /\ m.inputName = "GetUserReq" =>
                        /\ Fires(results[i], MethodHasCorrectInputName, m)
                        /\ \A e \in FindingsOf(results[i],
                                       MethodHasCorrectInputName, m) :
                              HasSuffix(results[i].Errors[e].text,
                                  "should be named as GetUserRequest")

(***************************************************************************)
(* C14: for a checked method, the rule method_has_correct_input_name       *)
(* reports a violation exactly when the rule is not excluded, the local    *)
(* name of the method matches the version pattern, the input type is not   *)
(* google.protobuf.Empty and the local name of the input type differs from *)
(* the local name of the method followed by "Request".  It reports at most *)
(* once, and a method whose name fails the version pattern never gets an   *)
(* input-name finding.                                                     *)
(***************************************************************************)
C14_InputNameFinding ==
    \A i \in 1..Len(results) :
        \A m \in CheckedOfKind(results[i], "method") :
            /\ Fires(results[i], MethodHasCorrectInputName, m)
                  <=> /\ ~IsCheckExcluded(config, MethodHasCorrectInputName)
                      /\ validMethodNameRegexp(m.name)
                      /\ m.inputFullName # "google.protobuf.Empty"
                      /\ m.inputName # m.name \o "Request"
            /\ Cardinality(FindingsOf(results[i],
                   MethodHasCorrectInputName, m)) <= 1
            /\ ~validMethodNameRegexp(m.name) =>
                  ~Fires(results[i], MethodHasCorrectInputName, m)

\* a file whose method GetUser takes GetUserReq has been checked with both
\* rules on: the version rule has reported, the input-name rule has not
C14_Witness ==
    /\ ~IsCheckExcluded(config, MethodHasVersion)
    /\ ~IsCheckExcluded(config, MethodHasCorrectInputName)
    /\ \E i \in 1..Len(results) :
          \E m \in CheckedOfKind(results[i], "method") :
              /\ m.name = "GetUser"
              /\ m.inputName = "GetUserReq"
              /\ Fires(results[i], MethodHasVersion, m)
              /\ ~Fires(results[i], MethodHasCorrectInputName, m)

\* the option google.api.http of a method decodes without error
BindingDecodes(binding) == ParseProtoMessageValues(binding).err = ""

\* the verb of the binding is post or put
BoundToPostOrPut(binding) == MsgHas(binding, "post") \/ MsgHas(binding, "put")

(***************************************************************************)
(* C15: with the rule method_has_body_tag not excluded, a checked method   *)
(* whose option google.api.http decodes gets a body-tag finding exactly    *)
(* when the verb of the binding is post or put and the body is absent or   *)
(* differs from "*"; a binding to get, delete or patch never gets one.  A  *)
(* method whose binding fails to decode gets no body-tag finding, whatever *)
(* its verb and body.                                                      *)
(***************************************************************************)
C15_BodyTagFinding ==
    ~IsCheckExcluded(config, MethodHasBodyTag) =>
        \A i \in 1..Len(results) :
            \A m \in CheckedOfKind(results[i], "method") :
                \A k \in OptionsNamed(m, httpOptionName) :
                    IF BindingDecodes(m.options[k].value)
                    THEN Fires(results[i], MethodHasBodyTag, m)
                            <=> /\ BoundToPostOrPut(m.options[k].value)
                                /\ MsgGet(m.options[k].value, "body", "") # "*"
                    ELSE ~Fires(results[i], MethodHasBodyTag, m)

\* a file whose method is bound to post with the body "user" has been
\* checked with the rule on: the body-tag rule has reported
C15_Witness ==
    /\ ~IsCheckExcluded(config, MethodHasBodyTag)
    /\ \E i \in 1..Len(results) :
          \E m \in CheckedOfKind(results[i], "method") :
              \E k \in OptionsNamed(m, httpOptionName) :
                  /\ m.options[k].value = HttpPostUser
                  /\ Fires(results[i], MethodHasBodyTag, m)

\* C15 as stated: every checked method bound to post or put whose body is
\* absent or differs from "*" gets a body-tag finding
C15_AsStated ==
    ~IsCheckExcluded(config, MethodHasBodyTag) =>
        \A i \in 1..Len(results) :
            \A m \in CheckedOfKind(results[i], "method") :
                \A k \in OptionsNamed(m, httpOptionName) :
                    Fires(results[i], MethodHasBodyTag, m)
                        <=> /\ BoundToPostOrPut(m.options[k].value)
                            /\ MsgGet(m.options[k].value, "body", "") # "*"

\* a verb key of the binding is present with a path that is not empty
HasVerbPath(binding) ==
    \E v \in verbKeys : MsgHas(binding, v) /\ MsgGet(binding, v, "") # ""

(***************************************************************************)
(* C16: with the rule method_has_http_path not excluded, a checked method  *)
(* whose option google.api.http decodes gets a path finding exactly when   *)
(* none of the keys get, put, post, delete, patch is present with a path   *)
(* that is not empty.  The path that fillGoogleAPIHTTPPath returns does    *)
(* not depend on the order in which the keys of the decoded map are met.   *)
(***************************************************************************)
C16_HTTPPathFinding ==
    ~IsCheckExcluded(config, MethodHasHTTPPath) =>
        \A i \in 1..Len(results) :
            \A m \in CheckedOfKind(results[i], "method") :
                \A k \in OptionsNamed(m, httpOptionName) :
                    BindingDecodes(m.options[k].value) =>
                        /\ Fires(results[i], MethodHasHTTPPath, m)
                              <=> ~HasVerbPath(m.options[k].value)
                        /\ Cardinality(fillGoogleAPIHTTPPath(
                               ParseProtoMessageValues(m.options[k].value).u)) = 1

\* a file whose method is bound to a custom pattern, with no verb key, has
\* been checked with the rule on: the path rule has reported
C16_Witness ==
    /\ ~IsCheckExcluded(config, MethodHasHTTPPath)
    /\ \E i \in 1..Len(results) :
          \E m \in CheckedOfKind(results[i], "method") :
              \E k \in OptionsNamed(m, httpOptionName) :
                  /\ m.options[k].value = HttpCustom
                  /\ Fires(results[i], MethodHasHTTPPath, m)

\* the checked values of a checked enum
CheckedValues(en) ==
    {en.values[k] : k \in {j \in 1..Len(en.values) :
        ~shouldDescriptorBeSkipped(config, en.values[j].fullName)}}

\* an enum value has no source location or only blanks as leading comments
HasNoComments(v) == ~v.sl.hasPath \/ TrimSpace(v.sl.leading) = ""

\* the name of an enum value in the messages: the full name of its enum
\* without the package of the file, a dot, the local name of the value
EnumValueLogName(r, en, v) ==
    getNameForLogs(compiled[r.File].package, "", 0, en.fullName)
        \o "." \o v.name

(***************************************************************************)
(* C17: with the rule enum_value_has_comments not excluded, a checked enum *)
(* value gets a finding exactly when it has no source location at all or   *)
(* its leading comments are empty once blanks are trimmed.  The message of *)
(* the finding ends with "Enum value <name> has no leading comments",      *)
(* where the name is the full name of the enum without the package of the  *)
(* file, followed by a dot and the local name of the value.                *)
(***************************************************************************)
C17_EnumValueComments ==
    ~IsCheckExcluded(config, EnumValueHasComments) =>
        \A i \in 1..Len(results) :
            \A en \in CheckedOfKind(results[i], "enum") :
                \A v \in CheckedValues(en) :
                    /\ Fires(results[i], EnumValueHasComments, v)
                          <=> HasNoComments(v)
                    /\ \A e \in FindingsOf(results[i], EnumValueHasComments, v) :
                          HasSuffix(results[i].Errors[e].text,
                              "Enum value " \o EnumValueLogName(results[i], en, v)
                                  \o " has no leading comments")

\* a file with an enum value that has no source location has been checked
\* with the rule on: the value has a finding
C17_Witness ==
    /\ ~IsCheckExcluded(config, EnumValueHasComments)
    /\ \E i \in 1..Len(results) :
          \E en \in CheckedOfKind(results[i], "enum") :
              \E v \in CheckedValues(en) :
                  /\ ~v.sl.hasPath
                  /\ Fires(results[i], EnumValueHasComments, v)

\* C17 as stated: the message of the finding contains the full name of the
\* enum value
C17_AsStated ==
    ~IsCheckExcluded(config, EnumValueHasComments) =>
        \A i \in 1..Len(results) :
            \A en \in CheckedOfKind(results[i], "enum") :
                \A v \in CheckedValues(en) :
                    /\ Fires(results[i], EnumValueHasComments, v)
                          <=> HasNoComments(v)
                    /\ \A e \in FindingsOf(results[i], EnumValueHasComments, v) :
                          Contains(results[i].Errors[e].text, v.fullName)

\* the description of a documentation option of a field, "" when it has none
DescriptionOf(schema) == MsgGet(schema, "description", "")

\* the findings of the three description rules about a field
DescriptionFindings(r, f) ==
    FindingsOf(r, FieldHasNoDescription, f)
        \cup FindingsOf(r, FieldDescriptionStartsWithCapital, f)
        \cup FindingsOf(r, FieldDescriptionEndsWithDotOrQuestionMark, f)

ElementsOf(list) == {list[k] : k \in 1..Len(list)}

\* the number of times a string is in a list
CountOf(list, x) == Cardinality({k \in 1..Len(list) : list[k] = x})

\* a list is the other one in another order
IsPermutation(a, b) ==
    /\ Len(a) = Len(b)
    /\ \A x \in ElementsOf(a) \cup ElementsOf(b) : CountOf(a, x) = CountOf(b, x)

\* the recorded names of all the results
RecordedNames(rs) == UNION {ElementsOf(rs[i].descriptors) : i \in 1..Len(rs)}

\* what the claim C19 says of the configuration g generated from the
\* configuration cfg and the results rs
IsGeneratedFrom(g, cfg, rs) ==
    /\ ElementsOf(g.ExcludedDescriptors)
          = ElementsOf(GetExcludedDescriptors(cfg)) \cup RecordedNames(rs)
    /\ \A k \in 1..(Len(g.ExcludedDescriptors) - 1) :
          StringLess(g.ExcludedDescriptors[k], g.ExcludedDescriptors[k + 1])
    /\ IsPermutation(g.ExcludedChecks, GetExcludedChecks(cfg))
    /\ \A k \in 1..(Len(g.ExcludedChecks) - 1) :
          ~StringLess(g.ExcludedChecks[k + 1], g.ExcludedChecks[k])
    /\ g.VerboseMode = GetVerboseMode(cfg)

(***************************************************************************)
(* C19: the step that prints the generated configuration writes the text   *)
(* of a configuration whose excluded descriptors are, as a set, the        *)
(* excluded descriptors of the current configuration together with the     *)
(* recorded names of all the results, in strictly ascending order, hence   *)
(* without duplicate, and whose excluded checks are the excluded checks of *)
(* the current configuration in ascending order.  The step leaves the      *)
(* current configuration and the results as they are.                      *)
(***************************************************************************)
C19_GeneratedConfiguration ==
    [][(output = NoOutput /\ output' # NoOutput) =>
          /\ IsGeneratedFrom(generateConfig(config, results), config, results)
          /\ output' = MarshalConfig(generateConfig(config, results))
          /\ config' = config
          /\ results' = results]_vars

\* the configuration has been printed from two results with recorded names,
\* the second with a name that the first has not
C19_Witness ==
    /\ pc = "exited"
    /\ subcommand = "print-config"
    /\ output # NoOutput
    /\ output = MarshalConfig(generateConfig(config, results))
    /\ Len(results) = 2
    /\ results[1].descriptors # <<>>
    /\ results[2].descriptors # <<>>
    /\ ElementsOf(results[2].descriptors) \ ElementsOf(results[1].descriptors) # {}

\* the run has ended on a compile failure: it exited with status 1 while a
\* file was still to be compiled
EndedOnCompileFailure ==
    /\ pc = "exited"
    /\ exitCode = 1
    /\ 1 <= fileIndex
    /\ fileIndex <= Len(files)

(***************************************************************************)
(* C20: a compile failure is fatal to the whole run.  The step on which    *)
(* the compiler fails on a file ends the process with status 1, leaves no  *)
(* result at all, the results of the files compiled earlier included,      *)
(* writes nothing and compiles nothing; the failing file and the files     *)
(* after it have not been compiled, and no step follows, so that no        *)
(* finding is printed.                                                     *)
(***************************************************************************)
C20_CompileFailureIsFatal ==
    [][/\ (pc = "compile" /\ fileIndex <= Len(files) /\ pc' = "exited") =>
              /\ exitCode' = 1
              /\ results' = <<>>
              /\ result' = NoResult
              /\ output' = output
              /\ compiled' = compiled
              /\ fileIndex' = fileIndex
              /\ \A k \in fileIndex..Len(files) : files[k] \notin DOMAIN compiled'
       /\ ~EndedOnCompileFailure]_vars

\* the first of two files was compiled and checked, the compiler failed on
\* the second: the run has ended with status 1 and without any result
C20_Witness ==
    /\ EndedOnCompileFailure
    /\ Len(files) = 2
    /\ fileIndex = 2
    /\ files[1] \in DOMAIN compiled
    /\ compiled[files[1]].kind = "file"
    /\ files[2] \notin DOMAIN compiled
    /\ results = <<>>

\* the full names of the elements of a file that the walk checks
CheckedNames(r) ==
    LET els == Checked(config, compiled[r.File])
    IN  {els[k].fullName : k \in 1..Len(els)}

(***************************************************************************)
(* C22: when record-all mode is off, every name in the recorded descriptor *)
(* list of a result, complete or under construction, is the full name of   *)
(* a checked element that has an error finding in the same result, of the  *)
(* rule the name was recorded for.  A skipped element, an element that     *)
(* passes every rule and an element with a decode failure alone are not    *)
(* recorded.                                                               *)
(***************************************************************************)
C22_OnlyViolatingElementsAreRecorded ==
    ~GetPrintAllDescriptors(config) =>
        \A i \in 1..Len(AllResults) :
            LET r == AllResults[i]
            IN  \A k \in 1..Len(r.descriptors) :
                    /\ r.descriptors[k] \in CheckedNames(r)
                    /\ \E e \in 1..Len(r.Errors) :
                          /\ r.Errors[e].subject = r.descriptors[k]
                          /\ r.Errors[e].rule = r.recordedFor[k]

\* two files have been checked with record-all mode off: one has a recorded
\* name, the other has a decode failure alone and no recorded name
C22_Witness ==
    /\ ~GetPrintAllDescriptors(config)
    /\ pc = "exited"
    /\ Len(results) = 2
    /\ \E i, j \in 1..2 :
          /\ results[i].descriptors # <<>>
          /\ results[j].descriptors = <<>>
          /\ results[j].Errors = <<>>
          /\ \E m \in 1..Len(results[j].Messages) :
                HasPrefix(results[j].Messages[m], "Failed to parse option")

\* the (rule, element) pairs of a list of error findings, in order
PairsOf(errors) == [k \in 1..Len(errors) |-> <<errors[k].rule, errors[k].subject>>]

\* the results that the rules leave, under a configuration, for one element
\* of the file of the result r taken alone
AloneResultsUnder(cfg, r, el) ==
    LET empty == NewOperationResult(compiled[r.File])
    IN  CASE el.kind = "method" ->
                checkMethodOptions(cfg,
                    checkMethodName(cfg, empty, el, el.fullName),
                    el, el.fullName)
          [] el.kind = "field" ->
                {checkFieldOptions(cfg,
                    checkFieldName(cfg, empty, el, el.fullName),
                    el, el.fullName)}
          [] el.kind = "enumvalue" ->
                {checkEnumValue(cfg, empty, el, el.fullName)}
          [] OTHER -> {empty}

\* the same under the configuration of the run
AloneResults(r, el) == AloneResultsUnder(config, r, el)

\* the lists of pairs that the elements of a list leave, each taken alone,
\* one after the other
RECURSIVE PairsOfEach(_, _)
PairsOfEach(r, els) ==
    IF Len(els) = 0 THEN {<<>>}
    ELSE {PairsOf(a.Errors) \o b :
            a \in AloneResults(r, Head(els)), b \in PairsOfEach(r, Tail(els))}

\* the number of elements the walk has yet to visit at most
ToVisit == Len(BelowAll([k \in 1..Len(agenda) |-> agenda[k].el]))

IsPrefixOf(a, b) == Len(a) <= Len(b) /\ SubSeq(b, 1, Len(a)) = a

(***************************************************************************)
(* C23: the walk never short-circuits on a violation.  The error findings  *)
(* of a checked file are, in order, the findings that each checked element *)
(* gets when its rules are evaluated alone, whatever the elements before   *)
(* it reported, and no (rule, element) pair has two findings.  During the  *)
(* walk the Errors and Messages of the result only grow, and every step of *)
(* the walk lowers the number of elements left to visit, so that an        *)
(* element is visited at most once and the walk ends.                      *)
(***************************************************************************)
C23_WalkNeverShortCircuits ==
    /\ [](\A i \in 1..Len(results) :
            /\ PairsOf(results[i].Errors)
                  \in PairsOfEach(results[i],
                          Checked(config, compiled[results[i].File]))
            /\ NoDuplicates(PairsOf(results[i].Errors)))
    /\ [][(pc = "walk" /\ agenda # <<>>) =>
              /\ pc' = "walk"
              /\ IsPrefixOf(result.Errors, result'.Errors)
              /\ IsPrefixOf(result.Messages, result'.Messages)
              /\ ToVisit' < ToVisit]_vars

\* a file has been checked where one element has findings of two rules and
\* an element after it has a finding too
C23_Witness ==
    \E i \in 1..Len(results) :
        \E a, b, c \in 1..Len(results[i].Errors) :
            /\ a < b
            /\ b < c
            /\ results[i].Errors[a].subject = results[i].Errors[b].subject
            /\ results[i].Errors[a].rule # results[i].Errors[b].rule
            /\ results[i].Errors[c].subject # results[i].Errors[a].subject

(***************************************************************************)
(* C27: decoding never modifies the message it reads.  A call of           *)
(* ParseProtoMessageValues leaves every field of the message as it was,    *)
(* the paths of an embedded FieldMask included, and a second call on the   *)
(* same message returns what the first call returned.                      *)
(***************************************************************************)
C27_DecodeLeavesTheMessage ==
    [][/\ decodeValue' = decodeValue
       /\ pc = "decoded" => decodeRes' = decodeRes]_vars

\* the singular fields of a message that hold a nested record
SingularRecords(m) ==
    {i \in 1..Len(m.fields) :
        m.fields[i].card = "single" /\ m.fields[i].kind \in {"message", "group"}}

\* the nested record at the path is one leaf of the map
IsLeafAt(u, path) ==
    /\ ValuesHas(u, path)
    /\ Len(u[path]) = 1
    /\ \A key \in DOMAIN u : ~HasPrefix(key, path \o ".")

\* the nested record at the path is flattened: no key at the path, and a key
\* at or under the path of each of its populated fields
IsFlattenedAt(u, path, nested) ==
    /\ ~ValuesHas(u, path)
    /\ \A j \in 1..Len(nested.fields) :
          IsPopulated(nested.fields[j]) =>
              \E key \in DOMAIN u :
                  KeyBelongsTo(key, fieldPath(path, nested.fields[j]))

(***************************************************************************)
(* C24: when decoding succeeds, a singular nested record field of the      *)
(* message is one leaf string at its path when its type is one of the      *)
(* well-known types, and is flattened otherwise: no key at the path of the *)
(* record, a key under parentPath "." key for each populated field of it.  *)
(***************************************************************************)
C24_SingularRecordIsLeafOrFlattened ==
    (pc = "decoded" /\ decodeRes.err = "") =>
        \A i \in SingularRecords(decodeArg) :
            IF decodeArg.fields[i].typeName \in encodedTypes
            THEN IsLeafAt(decodeRes.u, fieldPath("", decodeArg.fields[i]))
            ELSE IsFlattenedAt(decodeRes.u, fieldPath("", decodeArg.fields[i]),
                               decodeArg.fields[i].val)

IsRecordField(fd) == fd.kind \in {"message", "group"}

IsUnsupported(fd) == IsRecordField(fd) /\ fd.typeName \notin encodedTypes

\* the types outside the well-known list that the message holds as elements
\* of a populated repeated field, its own or one of a record reached
\* through singular fields of types outside the list
RECURSIVE UnsupportedRepeated(_)
UnsupportedRepeated(m) ==
    UNION {IF IsUnsupported(m.fields[i]) /\ m.fields[i].card = "list"
                /\ Len(m.fields[i].val) > 0
           THEN {m.fields[i].typeName}
           ELSE IF IsUnsupported(m.fields[i]) /\ m.fields[i].card = "single"
           THEN UnsupportedRepeated(m.fields[i].val)
           ELSE {} : i \in 1..Len(m.fields)}

\* the types outside the well-known list that the message holds anywhere:
\* as a singular field, as an element of a repeated field or as a map value
RECURSIVE UnsupportedAnywhere(_)
UnsupportedAnywhere(m) ==
    UNION {IF IsUnsupported(m.fields[i]) /\ IsPopulated(m.fields[i])
           THEN {m.fields[i].typeName}
                    \cup (IF m.fields[i].card = "single"
                          THEN UnsupportedAnywhere(m.fields[i].val) ELSE {})
           ELSE {} : i \in 1..Len(m.fields)}

UnsupportedError(typeName) == "unsupported message type: \"" \o typeName \o "\""

RECURSIVE WithEnclosing(_, _)
WithEnclosing(el, above) ==
    {[el |-> el, enclosing |-> above]}
        \cup UNION {WithEnclosing(Children(el)[k], above \cup {el.fullName}) :
                        k \in 1..Len(Children(el))}

\* an excluded descriptor is a prefix of the full name of the element or of
\* the full name of an element that encloses it
SkippedByExclusion(cfg, e) ==
    \E i \in 1..Len(GetExcludedDescriptors(cfg)) :
        \E name \in {e.el.fullName} \cup e.enclosing :
            HasPrefix(name, GetExcludedDescriptors(cfg)[i])

\* the rules report on the element when it is checked alone
ViolatesAlone(r, el) == \E a \in AloneResults(r, el) : Len(a.Errors) > 0

HasFinding(r, el) == \E e \in 1..Len(r.Errors) : r.Errors[e].subject = el.fullName

(***************************************************************************)
(* C26: an element is skipped by exclusion if and only if an excluded      *)
(* descriptor is a prefix, character by character, of its full name or of  *)
(* the full name of the file, service, message or enum that encloses it.   *)
(* So an element that violates a rule has a finding in the result of its   *)
(* file exactly when no excluded descriptor is such a prefix.  The match   *)
(* is not aligned to name segments: the excluded descriptor p.M skips the  *)
(* sibling p.MO too, and the empty excluded descriptor skips everything.   *)
(***************************************************************************)
C26_ExclusionIsPrefixMatch ==
    \A i \in 1..Len(results) :
        /\ \A e \in WithEnclosing(compiled[results[i].File], {}) :
              /\ SkippedByExclusion(config, e) => ~HasFinding(results[i], e.el)
              /\ (~SkippedByExclusion(config, e) /\ ViolatesAlone(results[i], e.el))
                    => HasFinding(results[i], e.el)
        /\ IsListed(GetExcludedDescriptors(config), "") => results[i].Errors = <<>>
        /\ IsListed(GetExcludedDescriptors(config), "p.M") =>
              \A e \in 1..Len(results[i].Errors) :
                  ~HasPrefix(results[i].Errors[e].subject, "p.MO")

\* m.proto has been checked with the excluded descriptor p.M: the field of
\* the sibling message p.MO, which violates a rule, has no finding, while an
\* element outside p.M has one
C26_Witness ==
    /\ GetExcludedDescriptors(config) = <<"p.M">>
    /\ \E i \in 1..Len(results) :
          /\ results[i].File = "m.proto"
          /\ results[i].Errors # <<>>
          /\ \E e \in WithEnclosing(compiled["m.proto"], {}) :
                /\ e.el.fullName = "p.MO.id"
                /\ ViolatesAlone(results[i], e.el)
                /\ ~HasFinding(results[i], e.el)

\* the lists of error findings that the elements of a list leave under a
\* configuration, one element after the other
RECURSIVE ErrorsOfEachUnder(_, _, _)
ErrorsOfEachUnder(cfg, r, els) ==
    IF Len(els) = 0 THEN {<<>>}
    ELSE {a.Errors \o b :
            a \in AloneResultsUnder(cfg, r, Head(els)),
            b \in ErrorsOfEachUnder(cfg, r, Tail(els))}

\* the error findings of the file of r when it is checked under cfg
ErrorsUnder(cfg, r) == ErrorsOfEachUnder(cfg, r, Checked(cfg, compiled[r.File]))

\* the configuration with one more excluded rule
AlsoExcluding(cfg, rule) == [cfg EXCEPT !.ExcludedChecks = Append(@, rule)]

\* a list of error findings without the findings of a rule
WithoutRule(errors, rule) ==
    LET IsOther(e) == e.rule # rule
    IN  SelectSeq(errors, IsOther)

(***************************************************************************)
(* C28: rule exclusions are independent of each other.  For a checked file *)
(* and a rule R that the configuration does not exclude, the error         *)
(* findings of the file under the configuration that excludes R as well    *)
(* are the findings under the configuration as it is, those of R removed   *)
(* and nothing else added, removed or reordered; the findings of the run   *)
(* are those of the file under its configuration.                          *)
(***************************************************************************)
C28_RuleExclusionsAreIndependent ==
    pc = "exited" =>
        \A i \in 1..Len(results) :
            /\ PairsOf(results[i].Errors)
                  \in {PairsOf(x) : x \in ErrorsUnder(config, results[i])}
            /\ \A rule \in AllChecks \ excludedChecksMap(config) :
                  ErrorsUnder(AlsoExcluding(config, rule), results[i])
                      = {WithoutRule(x, rule) : x \in ErrorsUnder(config, results[i])}

\* a field whose description is missing a capital and a final dot has been
\* checked with field_has_no_description excluded: the two other description
\* rules have reported
C28_Witness ==
    /\ pc = "exited"
    /\ excludedChecksMap(config) = {FieldHasNoDescription}
    /\ \E i \in 1..Len(results) :
          \E f \in CheckedOfKind(results[i], "field") :
              /\ Fires(results[i], FieldDescriptionStartsWithCapital, f)
              /\ Fires(results[i], FieldDescriptionEndsWithDotOrQuestionMark, f)

\* the rules that read the option google.api.http of a method, the option
\* openapiv2_operation of a method, the option openapiv2_field of a field
HTTPRules == {MethodHasHTTPPath, MethodHasBodyTag}
OperationRules ==
    {MethodHasSwaggerTags, MethodHasSwaggerSummary, MethodHasSwaggerDescription,
     MethodHasDefaultErrorResponse}
DescriptionRules ==
    {FieldHasNoDescription, FieldDescriptionStartsWithCapital,
     FieldDescriptionEndsWithDotOrQuestionMark}

(***************************************************************************)
(* C29: the rules that read an option run only for an option the element   *)
(* carries.  A checked method without the option google.api.http has no    *)
(* finding of the path and body rules; a checked method without the option *)
(* openapiv2_operation has no finding of the tags, summary, description    *)
(* and default error response rules; a checked field without the option    *)
(* openapiv2_field has no finding of the three description rules.          *)
(***************************************************************************)
C29_OptionRulesNeedTheOption ==
    \A i \in 1..Len(results) :
        /\ \A m \in CheckedOfKind(results[i], "method") :
              /\ OptionsNamed(m, httpOptionName) = {} =>
                    \A rule \in HTTPRules : ~Fires(results[i], rule, m)
              /\ OptionsNamed(m, operationOptionName) = {} =>
                    \A rule \in OperationRules : ~Fires(results[i], rule, m)
        /\ \A f \in CheckedOfKind(results[i], "field") :
              OptionsNamed(f, fieldOptionName) = {} =>
                  \A rule \in DescriptionRules : ~Fires(results[i], rule, f)

\* a method without any option has been checked with no rule excluded: it
\* has a finding of the version rule and none of the rules that read options
C29_Witness ==
    /\ excludedChecksMap(config) = {}
    /\ \E i \in 1..Len(results) :
          \E m \in CheckedOfKind(results[i], "method") :
              /\ m.options = <<>>
              /\ Fires(results[i], MethodHasVersion, m)
              /\ \A rule \in HTTPRules \cup OperationRules :
                    ~Fires(results[i], rule, m)

(***************************************************************************)
(* C30: the dependency cache.  In every reachable state each entry of the  *)
(* cache is the non-empty body of a response with status 200 that a call   *)
(* for exactly that import path received.  A call whose request ends in a  *)
(* transport error, a status other than 200 or an empty body returns an    *)
(* error and never writes the cache.  A call for a path that exists on the *)
(* disk returns the file without looking into the cache and without a      *)
(* request.  A call whose lookup finds its path in the cache returns the   *)
(* content found there and makes no request.                               *)
(***************************************************************************)
\* the calls made so far
Calls == {g \in Goroutines : accessor[g].at # "idle"}

\* a request that did not end in a status 200 with a body
IsFailedDownload(call) ==
    /\ call.requested
    /\ \/ call.response.err # ""
       \/ call.response.status # StatusOK
       \/ call.response.body = ""

EntryIsDownloadedBody(p) ==
    /\ cache[p] # ""
    /\ \E g \in Calls :
          /\ accessor[g].path = p
          /\ accessor[g].requested
          /\ accessor[g].response.err = ""
          /\ accessor[g].response.status = StatusOK
          /\ accessor[g].response.body = cache[p]

FailedDownloadIsAnError(g) ==
    IsFailedDownload(accessor[g]) =>
        /\ accessor[g].at = "returned"
        /\ accessor[g].err # ""
        /\ accessor[g].from = ""

LocalFileIsReadFromDisk(g) ==
    Stat(accessor[g].path) = "" =>
        /\ ~accessor[g].consulted
        /\ ~accessor[g].requested
        /\ accessor[g].at \in {"open", "returned"}
        /\ accessor[g].file = accessor[g].path
        /\ accessor[g].at = "returned" =>
              /\ accessor[g].from = "disk"
              /\ accessor[g].err = ""
              /\ accessor[g].content = Disk[accessor[g].path]

CacheHitIsServed(g) ==
    (accessor[g].consulted /\ accessor[g].ok) =>
        /\ ~accessor[g].requested
        /\ accessor[g].at \in {"unlock", "looked up", "returned"}
        /\ accessor[g].at = "returned" =>
              /\ accessor[g].from = "cache"
              /\ accessor[g].err = ""
              /\ accessor[g].content = accessor[g].cachedContent

\* the lookup finds what the cache holds, and only the write of a call that
\* holds a downloaded body changes the cache, at the path of the call
CacheStep ==
    /\ \A g \in Goroutines :
          (accessor[g].at = "read" /\ accessor'[g].at = "unlock") =>
              /\ accessor'[g].ok = (accessor[g].path \in DOMAIN cache)
              /\ accessor'[g].ok => accessor'[g].cachedContent = cache[accessor[g].path]
    /\ cache' # cache =>
          \E g \in Goroutines :
              /\ accessor[g].at = "write"
              /\ ~IsFailedDownload(accessor[g])
              /\ accessor[g].requested
              /\ cache' = mapStore(cache, accessor[g].path, accessor[g].response.body)
    /\ \A g \in Goroutines :
          IsFailedDownload(accessor'[g]) /\ ~IsFailedDownload(accessor[g])
              => cache' = cache

C30_DependencyCacheInvariant ==
    /\ [](/\ \A p \in DOMAIN cache : EntryIsDownloadedBody(p)
          /\ \A g \in Calls :
                /\ FailedDownloadIsAnError(g)
                /\ LocalFileIsReadFromDisk(g)
                /\ CacheHitIsServed(g))
    /\ [][CacheStep]_vars

\* one call downloaded a dependency and stored it; a later call for the
\* same path was served from the cache
C30_Witness ==
    \E g, h \in Goroutines :
        /\ accessor[g].from = "network"
        /\ accessor[h].from = "cache"
        /\ accessor[h].path = accessor[g].path
        /\ accessor[h].content = accessor[g].response.body
        /\ cache[accessor[g].path] = accessor[h].content

(***************************************************************************)
(* C21: the cache mutex.  Under every interleaving of concurrent Accessor  *)
(* calls, a goroutine reads or writes the cache map only while it holds    *)
(* the cache mutex, so no two accesses overlap and the map changes only in *)
(* the holder's write.  A goroutine that holds the mutex is inside         *)
(* getCachedContent or storeCachedContent, never in a file read or a       *)
(* download.  Every holder releases the mutex, and every goroutine waiting *)
(* for it gets it: the calls cannot deadlock on the mutex.                 *)
(***************************************************************************)
\* the goroutines at the map access of getCachedContent or storeCachedContent
Accessing == {g \in Goroutines : accessor[g].at \in {"read", "write"}}

\* the goroutines between Lock and the deferred Unlock
InCriticalSection ==
    {g \in Goroutines : accessor[g].at \in {"read", "unlock", "write", "store unlock"}}

\* the goroutines blocked in Lock
Waiting == {g \in Goroutines : accessor[g].at \in {"lock", "store lock"}}

MutexDiscipline ==
    /\ \A g \in Accessing : cacheMutex = {g}
    /\ Cardinality(Accessing) <= 1
    /\ Cardinality(cacheMutex) <= 1
    /\ cacheMutex = InCriticalSection
    /\ \A g \in cacheMutex : accessor[g].at \notin {"open", "download"}

\* the map is read and written by the holder only
AccessByHolder ==
    /\ cache' # cache => \E g \in cacheMutex : accessor[g].at = "write"
    /\ \A g \in Goroutines :
          accessor'[g].consulted # accessor[g].consulted =>
              (g \in cacheMutex /\ accessor[g].at = "read")

C21_CacheAccessIsSerialized ==
    /\ []MutexDiscipline
    /\ [][AccessByHolder]_vars
    /\ \A g \in Goroutines : (g \in cacheMutex) ~> (g \notin cacheMutex)
    /\ \A g \in Goroutines : (g \in Waiting) ~> (g \in cacheMutex)

\* one goroutine is about to write a downloaded body under the mutex while
\* the other is blocked in the Lock of its lookup
C21_Witness ==
    \E g, h \in Goroutines :
        /\ accessor[g].at = "write"
        /\ cacheMutex = {g}
        /\ accessor[h].at = "lock"
        /\ accessor[h].path = accessor[g].path

====
